---- MODULE Spec2Model ----
(***************************************************************************)
(* Verification model of the Engine2 memory substrate: the generational    *)
(* slot map (src/src/Core/SlotMap.cpp, src/include/Core/Handle.h) and the  *)
(* chained reserve/commit arena (src/src/Runtime/Memory/Arena.cpp).        *)
(*                                                                         *)
(* The specifications of the module:                                       *)
(*   Spec      - one slot map driven by arbitrary insert/remove calls      *)
(*   SpecWrap  - the "generation wraparound survives" test loop            *)
(*   SpecArena - one arena driven by push / popTo / temp scopes / writes   *)
(*   SpecAlign - one arena driven by pushes of every alignment and pops    *)
(*   SpecWide  - one arena driven by pushes of any uint64_t size           *)
(*   SpecRoll  - one arena driven by push / pop / clear / temp / release   *)
(*   SpecHandle - handleMake applied to an index and a generation          *)
(*   SpecFull  - a slot map of 2^24 slots that is nearly full              *)
(*   SpecZero  - one arena driven by the typed pushes, writes and pops     *)
(*   SpecEdge  - calls with a null arena, null map, zero size, zero        *)
(*               capacity or null value among pushes and inserts           *)
(*   SpecBacked - arenas created with and without a backing buffer         *)
(*   SpecAny   - one arena driven by push / pop / popTo to any position    *)
(*   SpecChain - one arena driven by pushes aligned up to 256 bytes        *)
(*   SpecFail  - one arena driven by pushes with platform calls failing    *)
(*   SpecBytes - slot maps of any value size and capacity: byte counts     *)
(*   SpecHash  - one hash map driven by arbitrary inserts and removes      *)
(***************************************************************************)
EXTENDS Integers, Sequences, FiniteSets, TLC

VARIABLES
    map,        \* the SlotMap struct and the four arrays it points to
    live,       \* handle -> value: returned by a successful insert, not passed to remove since
    removed,    \* handles that were valid when passed to slotMapRemove
    last,       \* the last slot-map call: its arguments, result and the map before it
    ops,        \* number of slot-map calls made so far
    fault,      \* TRUE once the process has faulted (memset through a null pointer, stack exhausted)
    handle,     \* SpecWrap: the test's local variable `handle`
    cyc,        \* SpecWrap: the loop counter i
    wpc,        \* SpecWrap: position inside the loop body
    arena,      \* SpecArena: the chain of block headers, the bytes of the blocks, the regions reserved
    allocs,     \* SpecArena: ranges returned by arenaPush that no pop has reclaimed
    runStart,   \* SpecArena: index in allocs of the first push after the last pop
    marks,      \* SpecArena: positions the caller read with arenaGetPos and may still pop to
    temps,      \* SpecArena: the open temp scopes, innermost last
    alast,      \* SpecArena: the last arena call and what it returned
    ncalls,     \* SpecArena, SpecAlign: arena calls counted against the bound so far
    pack,       \* SpecHandle: the arguments given to handleMake and the handle it returned
    edge,       \* SpecEdge: the last call made with a null or zero argument and its result
    params,     \* SpecBacked: the ArenaParams given to arenaCreate
    sized,      \* SpecBytes: the sizes of a slot map and of its value buffer
    hmap        \* SpecHash: the HashMapImpl, the last call on it and what callers expect of it

smVars == <<map, live, removed, last, ops, fault>>
wrapVars == <<handle, cyc, wpc>>
arenaVars == <<arena, allocs, runStart, marks, temps, alast, ncalls>>
auxVars == <<params, sized, hmap>>
packVars == <<pack, edge, params, sized, hmap>>
vars == <<map, live, removed, last, ops, fault, handle, cyc, wpc,
          arena, allocs, runStart, marks, temps, alast, ncalls, pack, edge, params, sized,
          hmap>>

----------------------------------------------------------------------------
(* Bounds of the model *)

MaxOps == 5         \* slot-map calls explored per behaviour of Spec
MaxInitCap == 2     \* slotMapCreate is called with initialCapacity in 1..MaxInitCap
WarmGen == 255      \* Spec also starts from a map whose slot 0 was cycled WarmGen times

MaxCalls == 4       \* arenaPush / arenaGetPos / arenaTempBegin calls per behaviour of SpecArena
MaxAlignCalls == 3  \* arenaPush / arenaPop calls per behaviour of SpecAlign
MaxWideCalls == 3   \* arenaPush calls per behaviour of SpecWide
MaxFullOps == 4     \* slot-map calls explored per behaviour of SpecFull
MaxChain == 3       \* blocks one arenaPush is followed through chaining in SpecChain
FullWindow == 2     \* SpecFull starts with this many slots of the map still unused
GrowInserts == 10   \* successful inserts followed from a map that saw no remove
MaxHashCalls == 4   \* hashMapInsert / hashMapRemove calls per behaviour of SpecHash
MaxSizedCalls == 3  \* slotMapInsert calls per behaviour of SpecBytes
MaxZeroCalls == 3   \* arena pushes and pops per behaviour of SpecZero

Values == {10, 20}  \* the payloads callers insert
InitCaps == 1..MaxInitCap
Junk == {0, 99}     \* what a cell of un-zeroed arena memory may hold

----------------------------------------------------------------------------
(* 32-bit words *)

\* A uint32_t is held as the 32-bit two's-complement integer with the same
\* bit pattern (the integers of the model are 32 bits wide): 0..2^31-1 stand
\* for themselves and 2^31..2^32-1 for u - 2^32, so 0xFFFFFFFF is -1.

\* a < b and a >= b on uint32_t
ULess(a, b) == IF (a >= 0) = (b >= 0) THEN a < b ELSE a >= 0
UGeq(a, b) == ~ULess(a, b)
UGreater(a, b) == ULess(b, a)

\* x + 1 and x * 2 on uint32_t, wrapping modulo 2^32
UInc(x) == IF x = 2147483647 THEN (-2147483647) - 1 ELSE x + 1
UDouble(x) ==
    LET low == x % 1073741824               \* bits 0..29
        b30 == (x \div 1073741824) % 2       \* bit 30, the sign of the result
    IN  IF b30 = 1 THEN 2 * (low - 1073741824) ELSE 2 * low

\* The upper and the lower 16 bits of a uint32_t, and the word made of them
Hi16(x) == IF x >= 0 THEN x \div 65536 ELSE (x \div 65536) + 65536
Lo16(x) == x % 65536
Word(hi, lo) == (IF hi >= 32768 THEN hi - 65536 ELSE hi) * 65536 + lo

\* The 32-bit product of two 16-bit numbers as its upper and lower 16 bits
Mul16(a, b) ==
    LET x == a * (b \div 256)      \* below 2^24
        y == a * (b % 256)         \* below 2^24
        t == x + (y \div 256)
    IN  [hi |-> t \div 256, lo |-> (t % 256) * 256 + (y % 256)]

\* a * b on uint32_t, wrapping modulo 2^32
UMul(a, b) ==
    Word((Mul16(Lo16(a), Lo16(b)).hi + Mul16(Hi16(a), Lo16(b)).lo
            + Mul16(Lo16(a), Hi16(b)).lo) % 65536,
         Mul16(Lo16(a), Lo16(b)).lo)

\* The product of a and b as integers is 2^32 or more.
MulWraps(a, b) ==
    \/ Hi16(a) # 0 /\ Hi16(b) # 0
    \/ Mul16(Hi16(a), Lo16(b)).hi # 0
    \/ Mul16(Lo16(a), Hi16(b)).hi # 0
    \/ Mul16(Lo16(a), Lo16(b)).hi + Mul16(Hi16(a), Lo16(b)).lo
           + Mul16(Lo16(a), Hi16(b)).lo >= 65536

\* x & mask for a mask 2^k - 1, and x >> k
AndMask(x, mask) == x % (mask + 1)
ShiftRight(x, k) == IF x >= 0 THEN x \div (2 ^ k) ELSE (x \div (2 ^ k)) + 2 ^ (32 - k)

\* (x & 0xFF) << 24 for x in 0..255
ShiftLeft24(x) == (IF x >= 128 THEN x - 256 ELSE x) * 16777216

----------------------------------------------------------------------------
(* Handle.h *)

HANDLE_INDEX_BITS == 24
HANDLE_GENERATION_BITS == 8
HANDLE_INDEX_MASK == 16777215
HANDLE_GENERATION_MASK == 255
HANDLE_INVALID_ID == -1     \* 0xFFFFFFFF
UINT32_MAX == -1            \* 0xFFFFFFFF

\* handleIndex returning the whole handle
handleIndex_NoMask(id) == id

handleIndex(id) == AndMask(id, HANDLE_INDEX_MASK)

handleGeneration(id) == AndMask(ShiftRight(id, HANDLE_INDEX_BITS), HANDLE_GENERATION_MASK)

\* the two fields do not overlap, so | is +
handleMake(index, generation) ==
    AndMask(index, HANDLE_INDEX_MASK)
        + ShiftLeft24(AndMask(generation, HANDLE_GENERATION_MASK))

handleIsValid(id) == id # HANDLE_INVALID_ID

----------------------------------------------------------------------------
(* SlotMap.cpp *)

NullPtr == -1       \* the null pointer returned by slotMapGetImpl

GrowOutcomes == {"ok", "noValues", "noIndices", "noGenerations", "noErase"}

\* slotMapCreate with a non-null arena, valueSize > 0 and every arenaPush
\* succeeding; pValues comes from arenaPush (not zeroed), the three uint32
\* arrays from arenaPushArray (zeroed) and the loop resets two of them.
slotMapCreate(initialCapacity, junk) ==
    [capacity     |-> initialCapacity,
     count        |-> 0,
     freeHead     |-> UINT32_MAX,
     pValues      |-> [i \in 0..(initialCapacity - 1) |-> junk],
     pIndices     |-> [i \in 0..(initialCapacity - 1) |-> UINT32_MAX],
     pGenerations |-> [i \in 0..(initialCapacity - 1) |-> 0],
     pErase       |-> [i \in 0..(initialCapacity - 1) |-> 0]]

\* slotMapGrow: outcome names the arenaPush that returned null ("ok": none).
\* The result carries the map and whether a null pointer reached memset.
slotMapGrow_GenerationsNotCopied(m, outcome, junk) ==
    LET newCapacity == UDouble(m.capacity)
    IN  IF outcome # "ok"
        THEN [map |-> m, nullMemset |-> outcome # "noValues"]
        ELSE [map |-> [m EXCEPT
                  !.pValues = [i \in 0..(newCapacity - 1) |->
                                  IF i < m.count THEN m.pValues[i] ELSE junk],
                  !.pIndices = [i \in 0..(newCapacity - 1) |->
                                  IF i < m.capacity THEN m.pIndices[i] ELSE UINT32_MAX],
                  !.pGenerations = [i \in 0..(newCapacity - 1) |->
                                  0],
                  !.pErase = [i \in 0..(newCapacity - 1) |->
                                  IF i < m.count THEN m.pErase[i] ELSE 0],
                  !.capacity = newCapacity],
              nullMemset |-> FALSE]

\* slotMapGrow making room for one more element only
slotMapGrow_ByOne(m, outcome, junk) ==
    LET newCapacity == UInc(m.capacity)
    IN  IF outcome # "ok"
        THEN [map |-> m, nullMemset |-> outcome # "noValues"]
        ELSE [map |-> [m EXCEPT
                  !.pValues = [i \in 0..(newCapacity - 1) |->
                                  IF i < m.count THEN m.pValues[i] ELSE junk],
                  !.pIndices = [i \in 0..(newCapacity - 1) |->
                                  IF i < m.capacity THEN m.pIndices[i] ELSE UINT32_MAX],
                  !.pGenerations = [i \in 0..(newCapacity - 1) |->
                                  IF i < m.capacity THEN m.pGenerations[i] ELSE 0],
                  !.pErase = [i \in 0..(newCapacity - 1) |->
                                  IF i < m.count THEN m.pErase[i] ELSE 0],
                  !.capacity = newCapacity],
              nullMemset |-> FALSE]

slotMapGrow(m, outcome, junk) ==
    LET newCapacity == UDouble(m.capacity)
    IN  IF outcome # "ok"
        THEN [map |-> m, nullMemset |-> outcome # "noValues"]
        ELSE [map |-> [m EXCEPT
                  !.pValues = [i \in 0..(newCapacity - 1) |->
                                  IF i < m.count THEN m.pValues[i] ELSE junk],
                  !.pIndices = [i \in 0..(newCapacity - 1) |->
                                  IF i < m.capacity THEN m.pIndices[i] ELSE UINT32_MAX],
                  !.pGenerations = [i \in 0..(newCapacity - 1) |->
                                  IF i < m.capacity THEN m.pGenerations[i] ELSE 0],
                  !.pErase = [i \in 0..(newCapacity - 1) |->
                                  IF i < m.count THEN m.pErase[i] ELSE 0],
                  !.capacity = newCapacity],
              nullMemset |-> FALSE]

\* The part of slotMapInsertImpl after the capacity check (lines 100-132).
InsertTail(g) ==
    LET fromFree    == g.freeHead # UINT32_MAX
        sparseIndex == IF fromFree THEN g.freeHead ELSE g.count
        newHead     == IF fromFree THEN g.pIndices[sparseIndex] ELSE g.freeHead
        denseIndex  == g.count
    IN  [sparseIndex |-> sparseIndex, newHead |-> newHead, denseIndex |-> denseIndex]

\* slotMapInsertImpl with non-null pSlotMap and pValue.  The second growth
\* attempt (lines 111-119) needs sparseIndex = count >= capacity, which the
\* check at line 93 has already excluded, so it never changes the result.
slotMapInsertImpl(m, pValue, outcome, junk) ==
    LET gr == IF UGeq(m.count, m.capacity)
              THEN slotMapGrow(m, outcome, junk)
              ELSE [map |-> m, nullMemset |-> FALSE]
        g  == gr.map
        t  == InsertTail(g)
    IN  IF gr.nullMemset \/ UGeq(g.count, g.capacity)
        THEN [map |-> g, ret |-> HANDLE_INVALID_ID, nullMemset |-> gr.nullMemset]
        ELSE [map |-> [g EXCEPT
                  !.freeHead = t.newHead,
                  !.count = UInc(g.count),
                  !.pIndices[t.sparseIndex] = t.denseIndex,
                  !.pErase[t.denseIndex] = t.sparseIndex,
                  !.pValues[t.denseIndex] = pValue],
              ret |-> handleMake(t.sparseIndex, g.pGenerations[t.sparseIndex]),
              nullMemset |-> FALSE]

\* slotMapIsValidImpl without the generation comparison
slotMapIsValidImpl_NoGenerationCheck(m, h) ==
    /\ handleIsValid(h)
    /\ ULess(handleIndex(h), m.capacity)
    /\ m.pIndices[handleIndex(h)] # UINT32_MAX
    /\ ULess(m.pIndices[handleIndex(h)], m.count)

\* slotMapIsValidImpl with a non-null pSlotMap.
slotMapIsValidImpl(m, h) ==
    /\ handleIsValid(h)
    /\ ULess(handleIndex(h), m.capacity)
    /\ m.pGenerations[handleIndex(h)] = handleGeneration(h)
    /\ m.pIndices[handleIndex(h)] # UINT32_MAX
    /\ ULess(m.pIndices[handleIndex(h)], m.count)

\* slotMapGetImpl with a non-null pSlotMap: the dense index the returned
\* pointer addresses (pValues + denseIndex * valueSize), or NullPtr.
slotMapGetImpl(m, h) ==
    IF ~handleIsValid(h) THEN NullPtr
    ELSE IF UGeq(handleIndex(h), m.capacity) THEN NullPtr
    ELSE IF m.pGenerations[handleIndex(h)] # handleGeneration(h) THEN NullPtr
    ELSE IF \/ m.pIndices[handleIndex(h)] = UINT32_MAX
            \/ UGeq(m.pIndices[handleIndex(h)], m.count) THEN NullPtr
    ELSE m.pIndices[handleIndex(h)]

\* The value read through a non-null pointer returned by slotMapGetImpl.
Deref(m, p) == m.pValues[p]

\* The early returns of slotMapRemoveImpl without the generation comparison
RemoveRejects_NoGenerationCheck(m, h) ==
    \/ ~handleIsValid(h)
    \/ UGeq(handleIndex(h), m.capacity)
    \/ m.pIndices[handleIndex(h)] = UINT32_MAX
    \/ UGeq(m.pIndices[handleIndex(h)], m.count)

\* The early returns of slotMapRemoveImpl (lines 159-174).
RemoveRejects(m, h) ==
    \/ ~handleIsValid(h)
    \/ UGeq(handleIndex(h), m.capacity)
    \/ m.pGenerations[handleIndex(h)] # handleGeneration(h)
    \/ m.pIndices[handleIndex(h)] = UINT32_MAX
    \/ UGeq(m.pIndices[handleIndex(h)], m.count)

\* The swap that moves the value and patches the sparse table only
RemoveSwap_EraseNotPatched(m, denseIndex) ==
    LET lastDenseIndex   == m.count - 1
        movedSparseIndex == m.pErase[lastDenseIndex]
    IN  IF denseIndex # lastDenseIndex
        THEN [m EXCEPT !.pValues[denseIndex] = m.pValues[lastDenseIndex],
                       !.pIndices[movedSparseIndex] = denseIndex]
        ELSE m

\* The swap of slotMapRemoveImpl (lines 176-187).
RemoveSwap(m, denseIndex) ==
    LET lastDenseIndex   == m.count - 1
        movedSparseIndex == m.pErase[lastDenseIndex]
    IN  IF denseIndex # lastDenseIndex
        THEN [m EXCEPT !.pValues[denseIndex] = m.pValues[lastDenseIndex],
                       !.pIndices[movedSparseIndex] = denseIndex,
                       !.pErase[denseIndex] = movedSparseIndex]
        ELSE m

slotMapRemoveImpl_NoGenerationBump(m, h) ==
    IF RemoveRejects(m, h) THEN m
    ELSE LET sparseIndex == handleIndex(h)
             s == RemoveSwap(m, m.pIndices[sparseIndex])
         IN  [s EXCEPT !.count = m.count - 1,
                       !.pIndices[sparseIndex] = m.freeHead,
                       !.freeHead = sparseIndex]

slotMapRemoveImpl_NoSwapPatch(m, h) ==
    IF RemoveRejects(m, h) THEN m
    ELSE LET sparseIndex == handleIndex(h)
         IN  [m EXCEPT !.count = m.count - 1,
                       !.pGenerations[sparseIndex] = UInc(m.pGenerations[sparseIndex]),
                       !.pIndices[sparseIndex] = m.freeHead,
                       !.freeHead = sparseIndex]

slotMapRemoveImpl_DoubleBump(m, h) ==
    IF RemoveRejects(m, h) THEN m
    ELSE LET sparseIndex == handleIndex(h)
             s == RemoveSwap(m, m.pIndices[sparseIndex])
         IN  [s EXCEPT !.count = m.count - 1,
                       !.pGenerations[sparseIndex] = UInc(UInc(m.pGenerations[sparseIndex])),
                       !.pIndices[sparseIndex] = m.freeHead,
                       !.freeHead = sparseIndex]

\* slotMapRemoveImpl with a non-null pSlotMap; pGenerations is a uint32 array.
slotMapRemoveImpl(m, h) ==
    IF RemoveRejects(m, h) THEN m
    ELSE LET sparseIndex == handleIndex(h)
             s == RemoveSwap(m, m.pIndices[sparseIndex])
         IN  [s EXCEPT !.count = m.count - 1,
                       !.pGenerations[sparseIndex] = UInc(m.pGenerations[sparseIndex]),
                       !.pIndices[sparseIndex] = m.freeHead,
                       !.freeHead = sparseIndex]

slotMapCount(m) == m.count

slotMapCapacity(m) == m.capacity

\* The entry points as a caller reaches them.  A pointer argument is nullptr
\* or points to the one object of its kind in the model, which is passed
\* beside it.
nullptr == "nullptr"
Pointers == {nullptr, "object"}

\* slotMapCreate that does not test initialCapacity
slotMapCreateAt_NoCapacityCheck(pArena, valueSize, initialCapacity, junk) ==
    IF pArena = nullptr \/ valueSize = 0 THEN [pSlotMap |-> nullptr]
    ELSE [pSlotMap |-> "object", map |-> slotMapCreate(initialCapacity, junk)]

\* slotMapCreate(pArena, valueSize, valueAlign, initialCapacity): the early
\* return of line 50, else the map built with every arenaPush succeeding.
slotMapCreateAt(pArena, valueSize, initialCapacity, junk) ==
    IF pArena = nullptr \/ valueSize = 0 \/ initialCapacity = 0 THEN [pSlotMap |-> nullptr]
    ELSE [pSlotMap |-> "object", map |-> slotMapCreate(initialCapacity, junk)]

slotMapInsertAt(pSlotMap, m, pValue, value, outcome, junk) ==
    IF pSlotMap = nullptr \/ pValue = nullptr
    THEN [map |-> m, ret |-> HANDLE_INVALID_ID, nullMemset |-> FALSE]
    ELSE slotMapInsertImpl(m, value, outcome, junk)

slotMapGetAt(pSlotMap, m, h) ==
    IF pSlotMap = nullptr THEN NullPtr ELSE slotMapGetImpl(m, h)

slotMapRemoveAt(pSlotMap, m, h) ==
    IF pSlotMap = nullptr THEN m ELSE slotMapRemoveImpl(m, h)

slotMapIsValidAt(pSlotMap, m, h) ==
    IF pSlotMap = nullptr THEN FALSE ELSE slotMapIsValidImpl(m, h)

slotMapCountAt(pSlotMap, m) == IF pSlotMap = nullptr THEN 0 ELSE slotMapCount(m)

slotMapCapacityAt(pSlotMap, m) == IF pSlotMap = nullptr THEN 0 ELSE slotMapCapacity(m)

----------------------------------------------------------------------------
(* ArenaTypes.h, Arena.cpp *)

ARENA_HEADER_SIZE == 128
ArenaFlag_None == 0
ArenaFlag_NoChain == 1

\* A uint64_t is held the same way as a uint32_t: small values stand for
\* themselves and a negative integer -k for 2^64 - k, so that + and - are the
\* arithmetic modulo 2^64 and the comparisons are ULess, UGeq and UGreater.

\* x & y for 0 <= y < 2^30 (the low 30 bits of a negative x are x % 2^30)
RECURSIVE BitAnd(_, _)
BitAnd(x, y) ==
    IF x < 0 THEN BitAnd(x % 1073741824, y)
    ELSE IF x = 0 \/ y = 0 THEN 0
    ELSE 2 * BitAnd(x \div 2, y \div 2) + (IF x % 2 = 1 /\ y % 2 = 1 THEN 1 ELSE 0)

\* alignPow2 rounding down instead of up
alignPow2_RoundsDown(value, align) == value - BitAnd(value, align - 1)

\* alignPow2 without the mask
alignPow2_NoMask(value, align) == value + (align - 1)

\* value + (align - 1) & ~(align - 1): with v = value + (align - 1),
\* v & ~(align - 1) is v minus the bits v shares with align - 1.
alignPow2(value, align) ==
    LET v == value + (align - 1)
    IN  v - BitAnd(v, align - 1)

\* Addresses are (region, offset from the start of the region); the regions
\* the platform has reserved are numbered from 1 and region 0 is never
\* reserved, so NullAddr is the null pointer.
NullAddr == [blk |-> 0, off |-> 0]

\* The bytes of the committed memory are kept as extents [blk, lo, hi, val]:
\* every byte of region blk at an offset in lo..hi-1 holds val.  Bytes in no
\* extent are not committed.
ZeroByte == 0
HeaderByte == -1    \* stands for the bytes of a block header, whatever they are

\* Storing val into every byte of [lo, hi) of region blk.
Store(mem, blk, lo, hi, val) ==
    IF lo >= hi THEN mem
    ELSE {e \in mem : e.blk # blk \/ e.hi <= lo \/ e.lo >= hi}
         \cup {[e EXCEPT !.hi = lo] : e \in {x \in mem : x.blk = blk /\ x.lo < lo /\ x.hi > lo}}
         \cup {[e EXCEPT !.lo = hi] : e \in {x \in mem : x.blk = blk /\ x.lo < hi /\ x.hi > hi}}
         \cup {[blk |-> blk, lo |-> lo, hi |-> hi, val |-> val]}

\* Every byte of [lo, hi) of region blk is committed and holds val.
Holds(mem, blk, lo, hi, val) ==
    \A k \in lo..(hi - 1) :
        \E e \in mem : e.blk = blk /\ e.lo <= k /\ k < e.hi /\ e.val = val

\* The byte of region blk at offset k; NoByte when it is not committed.
NoByte == -2
ByteAt(mem, blk, k) ==
    IF \E e \in mem : e.blk = blk /\ e.lo <= k /\ k < e.hi
    THEN (CHOOSE e \in mem : e.blk = blk /\ e.lo <= k /\ k < e.hi).val
    ELSE NoByte

\* platformReserveMemory: a region that overlaps no region still reserved
\* (the lowest free number: the platform may hand a released region out again).
platformReserveMemory(regions) ==
    CHOOSE id \in 1..(Cardinality(regions) + 1) : id \notin regions

\* platformCommitMemory makes [lo, hi) of the region accessible and zero-filled.
platformCommitMemory(mem, blk, lo, hi) == Store(mem, blk, lo, hi, ZeroByte)

\* platformReleaseMemory tears the whole region down; badFree records a
\* release of a region that is not reserved.
platformReleaseMemory(A, blk) ==
    [A EXCEPT !.mem = {e \in A.mem : e.blk # blk},
              !.regions = A.regions \ {blk},
              !.badFree = A.badFree \/ blk \notin A.regions]

\* arenaCreate(pParams) with no backing buffer and the platform calls
\* succeeding.  blocks is the chain from the first block to pCurrent; each
\* block's pPrev is the block before it.
arenaCreate(flags, reserveSize, commitSize) ==
    LET initialCommitSize == IF ULess(commitSize, ARENA_HEADER_SIZE)
                             THEN ARENA_HEADER_SIZE ELSE commitSize
        region == platformReserveMemory({})
        hdr == [region |-> region, flags |-> flags, commitSize |-> commitSize,
                reserveSize |-> reserveSize, basePos |-> 0,
                pos |-> ARENA_HEADER_SIZE, committed |-> initialCommitSize,
                reserved |-> reserveSize]
    IN  [blocks  |-> <<hdr>>,
         mem     |-> Store(platformCommitMemory({}, region, 0, initialCommitSize),
                           region, 0, ARENA_HEADER_SIZE, HeaderByte),
         regions |-> {region},
         badFree |-> FALSE]

\* arenaCreate(&params) with the whole ArenaParams struct.  reserveSize,
\* commitSize and flags are read; pBackingBuffer is read nowhere, so the
\* first block is reserved from the platform whatever the caller supplied.
arenaCreateParams(pParams) ==
    arenaCreate(pParams.flags, pParams.reserveSize, pParams.commitSize)

\* arenaCreate when a platform call fails: a failed reservation leaves
\* nothing behind, and after a failed commit the region reserved is released;
\* either way there is no arena.
arenaCreateFailed(platform) ==
    LET none   == [blocks |-> <<>>, mem |-> {}, regions |-> {}, badFree |-> FALSE]
        region == platformReserveMemory({})
    IN  IF platform = "reserve" THEN none
        ELSE platformReleaseMemory([none EXCEPT !.regions = {region}], region)

pCurrent(A) == A.blocks[Len(A.blocks)]

\* The new block placed where the current block's cursor stands
NewBlock_BaseFromCursor(cur, size, region) ==
    LET newCommitSize  == cur.commitSize
        newReserveSize == IF UGreater(size + ARENA_HEADER_SIZE, cur.reserveSize)
                          THEN alignPow2(size + ARENA_HEADER_SIZE, newCommitSize)
                          ELSE cur.reserveSize
        neededCommit   == ARENA_HEADER_SIZE + size
        initialCommit  == IF UGreater(neededCommit, newCommitSize)
                          THEN alignPow2(neededCommit, newCommitSize)
                          ELSE newCommitSize
    IN  [region |-> region, flags |-> cur.flags, commitSize |-> newCommitSize,
         reserveSize |-> newReserveSize, basePos |-> cur.basePos + cur.pos,
         pos |-> ARENA_HEADER_SIZE, committed |-> initialCommit,
         reserved |-> newReserveSize]

\* The block arenaPush chains when the current one is full (lines 129-170).
NewBlock(cur, size, region) ==
    LET newCommitSize  == cur.commitSize
        newReserveSize == IF UGreater(size + ARENA_HEADER_SIZE, cur.reserveSize)
                          THEN alignPow2(size + ARENA_HEADER_SIZE, newCommitSize)
                          ELSE cur.reserveSize
        neededCommit   == ARENA_HEADER_SIZE + size
        initialCommit  == IF UGreater(neededCommit, newCommitSize)
                          THEN alignPow2(neededCommit, newCommitSize)
                          ELSE newCommitSize
    IN  [region |-> region, flags |-> cur.flags, commitSize |-> newCommitSize,
         reserveSize |-> newReserveSize, basePos |-> cur.basePos + cur.reserved,
         pos |-> ARENA_HEADER_SIZE, committed |-> initialCommit,
         reserved |-> newReserveSize]

\* The test of line 120 together with the flag test of line 123: this push
\* does not fit the block cur and the arena may chain.
Overflows(cur, size, align) ==
    /\ size # 0
    /\ UGreater(alignPow2(cur.pos, align) + size, cur.reserved)
    /\ BitAnd(cur.flags, ArenaFlag_NoChain) = 0

\* arenaPush(pArena, size, align) with a non-null arena.  platform says which
\* platform call of this push fails: "ok" none, "reserve" the reservation of a
\* new block, "commit" the commit (of a new block or of more of the current
\* one), "retry" the platform call the retried push of line 175 makes after a
\* block was chained.  The result carries the arena, the address returned and the regions
\* released on the way.
RECURSIVE arenaPush(_, _, _, _)
arenaPush(A, size, align, platform) ==
    LET n          == Len(A.blocks)
        cur        == A.blocks[n]
        posAligned == alignPow2(cur.pos, align)
        posNew     == posAligned + size
        failed     == [arena |-> A, ret |-> NullAddr]
    IN  IF size = 0 THEN failed
        ELSE IF UGreater(posNew, cur.reserved)
        THEN IF BitAnd(cur.flags, ArenaFlag_NoChain) # 0 THEN failed
             ELSE IF platform = "reserve" THEN failed
             ELSE LET region == platformReserveMemory(A.regions)
                      hdr    == NewBlock(cur, size, region)
                  IN  IF platform = "commit"
                      THEN [arena |-> platformReleaseMemory(
                                          [A EXCEPT !.regions = A.regions \cup {region}],
                                          region),
                            ret |-> NullAddr]
                      ELSE arenaPush(
                          [blocks  |-> Append(A.blocks, hdr),
                           mem     |-> Store(platformCommitMemory(A.mem, region, 0, hdr.committed),
                                             region, 0, ARENA_HEADER_SIZE, HeaderByte),
                           regions |-> A.regions \cup {region},
                           badFree |-> A.badFree],
                          size, align,
                          IF platform # "retry" THEN "ok"
                          ELSE IF Overflows(hdr, size, align) THEN "reserve"
                          ELSE "commit")
        ELSE IF UGreater(posNew, cur.committed)
        THEN LET aligned      == alignPow2(posNew, cur.commitSize)
                 commitTarget == IF UGreater(aligned, cur.reserved) THEN cur.reserved ELSE aligned
             IN  IF platform = "commit" THEN failed
                 ELSE [arena |-> [A EXCEPT
                           !.blocks[n].committed = commitTarget,
                           !.blocks[n].pos = posNew,
                           !.mem = platformCommitMemory(A.mem, cur.region,
                                                        cur.committed, commitTarget)],
                       ret |-> [blk |-> cur.region, off |-> posAligned]]
        ELSE [arena |-> [A EXCEPT !.blocks[n].pos = posNew],
              ret |-> [blk |-> cur.region, off |-> posAligned]]

arenaGetPos(A) == pCurrent(A).basePos + pCurrent(A).pos

\* The number of blocks arenaPush(pArena, size, align) chains when every
\* platform call succeeds, counted up to fuel: the call of line 175 runs the
\* same tests on the block just chained.
RECURSIVE ChainCount(_, _, _, _)
ChainCount(cur, size, align, fuel) ==
    IF fuel = 0 \/ ~Overflows(cur, size, align) THEN 0
    ELSE 1 + ChainCount(NewBlock(cur, size, 0), size, align, fuel - 1)

\* The arena after lines 129-172 have run k times for a push of this size.
RECURSIVE ChainBlocks(_, _, _)
ChainBlocks(A, size, k) ==
    IF k = 0 THEN A
    ELSE LET region == platformReserveMemory(A.regions)
             hdr    == NewBlock(pCurrent(A), size, region)
         IN  ChainBlocks(
                 [blocks  |-> Append(A.blocks, hdr),
                  mem     |-> Store(platformCommitMemory(A.mem, region, 0, hdr.committed),
                                    region, 0, ARENA_HEADER_SIZE, HeaderByte),
                  regions |-> A.regions \cup {region},
                  badFree |-> A.badFree],
                 size, k - 1)

\* The walk of arenaPopTo stopping at a block that starts exactly at targetPos
RECURSIVE PopWalk_Strict(_, _, _)
PopWalk_Strict(blocks, n, targetPos) ==
    IF n = 0 THEN 0
    ELSE IF UGreater(blocks[n].basePos, targetPos) THEN PopWalk_Strict(blocks, n - 1, targetPos)
    ELSE n

\* The number of blocks arenaPopTo keeps: it walks back from pCurrent while
\* the block's basePos >= targetPos (0 when it runs off the chain).
RECURSIVE PopWalk(_, _, _)
PopWalk(blocks, n, targetPos) ==
    IF n = 0 THEN 0
    ELSE IF UGeq(blocks[n].basePos, targetPos) THEN PopWalk(blocks, n - 1, targetPos)
    ELSE n

\* Releasing blocks k+1..n of the chain, newest first.
RECURSIVE ReleaseDownTo(_, _, _)
ReleaseDownTo(A, n, k) ==
    IF n <= k THEN A
    ELSE ReleaseDownTo(platformReleaseMemory(A, A.blocks[n].region), n - 1, k)

\* arenaPopTo without the clamp of the target to the header size
arenaPopTo_NoHeaderClamp(A, targetPos) ==
    LET n     == Len(A.blocks)
        k     == PopWalk(A.blocks, n, targetPos)
        freed == ReleaseDownTo(A, n, k)
    IN  IF k = 0 THEN freed
        ELSE [freed EXCEPT !.blocks = [i \in 1..k |->
                  IF i = k THEN [A.blocks[k] EXCEPT !.pos = targetPos - A.blocks[k].basePos]
                  ELSE A.blocks[i]]]

\* arenaPopTo(pArena, targetPos) with a non-null arena.  When the walk runs
\* off the chain every block has been released and pCurrent is left as it was.
arenaPopTo(A, targetPos) ==
    LET target == IF ULess(targetPos, ARENA_HEADER_SIZE) THEN ARENA_HEADER_SIZE ELSE targetPos
        n      == Len(A.blocks)
        k      == PopWalk(A.blocks, n, target)
        freed  == ReleaseDownTo(A, n, k)
    IN  IF k = 0 THEN freed
        ELSE [freed EXCEPT !.blocks = [i \in 1..k |->
                  IF i = k THEN [A.blocks[k] EXCEPT !.pos = target - A.blocks[k].basePos]
                  ELSE A.blocks[i]]]

\* arenaPop without the guard against amount >= position
arenaPop_NoClamp(A, amount) == arenaPopTo(A, arenaGetPos(A) - amount)

\* arenaPop(pArena, amount) with a non-null arena.
arenaPop(A, amount) ==
    LET currentPos == arenaGetPos(A)
        targetPos  == IF ULess(amount, currentPos) THEN currentPos - amount ELSE 0
    IN  arenaPopTo(A, targetPos)

\* arenaClear resetting the current block only
arenaClear_CurrentOnly(A) ==
    [A EXCEPT !.blocks[Len(A.blocks)].pos = ARENA_HEADER_SIZE]

\* arenaClear(pArena) with a non-null arena.
arenaClear(A) == arenaPopTo(A, 0)

\* arenaRelease releasing the block the handle points to and no other
arenaRelease_FirstBlockOnly(A) ==
    [platformReleaseMemory(A, A.blocks[1].region) EXCEPT !.blocks = <<>>]

\* arenaRelease(pArena) with a non-null arena: every block from pCurrent back
\* along pPrev is released; no block is left.
arenaRelease(A) ==
    [ReleaseDownTo(A, Len(A.blocks), 0) EXCEPT !.blocks = <<>>]

\* arenaTempBegin saving the cursor of the current block, not the position
arenaTempBegin_LocalCursor(A) == [pos |-> pCurrent(A).pos]

\* arenaTempBegin / arenaTempEnd: ArenaTemp is the saved position.
arenaTempBegin(A) == [pos |-> arenaGetPos(A)]

arenaTempEnd(A, temp) == arenaPopTo(A, temp.pos)

\* memset left out of arenaPushArray
ZeroFill_Skipped(r, n) ==
    [arena |-> r.arena, ret |-> r.ret, nullMemset |-> r.ret = NullAddr]

\* memset(pMem, 0, n) as arenaPushStruct and arenaPushArray call it: the
\* bytes are zeroed; nullMemset says that pMem was null.
ZeroFill(r, n) ==
    IF r.ret = NullAddr
    THEN [arena |-> r.arena, ret |-> NullAddr, nullMemset |-> TRUE]
    ELSE [arena |-> [r.arena EXCEPT !.mem = Store(r.arena.mem, r.ret.blk, r.ret.off,
                                                  r.ret.off + n, ZeroByte)],
          ret |-> r.ret, nullMemset |-> FALSE]

\* The alignment the template helpers ask for: alignof(T), at least 8.
TemplateAlign(alignofT) == IF alignofT >= 8 THEN alignofT ELSE 8

\* arenaPushStruct<T>(pArena) for a type of size sizeofT and alignment alignofT.
arenaPushStruct(A, sizeofT, alignofT, platform) ==
    ZeroFill(arenaPush(A, sizeofT, TemplateAlign(alignofT), platform), sizeofT)

\* arenaPushArray<T>(pArena, count)
arenaPushArray(A, sizeofT, alignofT, count, platform) ==
    ZeroFill(arenaPush(A, sizeofT * count, TemplateAlign(alignofT), platform),
             sizeofT * count)

\* arenaPushArrayNoZero<T>(pArena, count)
arenaPushArrayNoZero(A, sizeofT, alignofT, count, platform) ==
    [arena |-> arenaPush(A, sizeofT * count, TemplateAlign(alignofT), platform).arena,
     ret |-> arenaPush(A, sizeofT * count, TemplateAlign(alignofT), platform).ret,
     nullMemset |-> FALSE]

\* The arena entry points as a caller reaches them, pArena being nullptr or
\* pointing to the arena A.
arenaPushAt(pArena, A, size, align, platform) ==
    IF pArena = nullptr THEN [arena |-> A, ret |-> NullAddr]
    ELSE arenaPush(A, size, align, platform)

arenaGetPosAt(pArena, A) == IF pArena = nullptr THEN 0 ELSE arenaGetPos(A)

arenaPopToAt(pArena, A, targetPos) ==
    IF pArena = nullptr THEN A ELSE arenaPopTo(A, targetPos)

arenaPopAt(pArena, A, amount) ==
    IF pArena = nullptr THEN A ELSE arenaPop(A, amount)

arenaClearAt(pArena, A) == arenaPopToAt(pArena, A, 0)

arenaReleaseAt(pArena, A) == IF pArena = nullptr THEN A ELSE arenaRelease(A)

\* ArenaTemp with its pArena field
arenaTempBeginAt(pArena, A) == [pArena |-> pArena, pos |-> arenaGetPosAt(pArena, A)]

arenaTempEndAt(A, temp) == arenaPopToAt(temp.pArena, A, temp.pos)

\* The arena variables of a behaviour that uses no arena.
NoArena == [blocks |-> <<>>, mem |-> {}, regions |-> {}, badFree |-> FALSE]

NoMark == [pos |-> 0, region |-> 0, local |-> 0, depth |-> 0]

\* No handle packed: the state of pack in the specifications that do not use it.
NoPack == [index |-> 0, generation |-> 0, id |-> 0, made |-> FALSE]
\* No call with a null or zero argument made.
\* (ret is the value returned, written out as text: the entry points return
\* values of different kinds.)
NoEdge == [call |-> "none", ret |-> "", arena |-> NoArena, map |-> slotMapCreate(1, 0)]
NoParams == [flags |-> ArenaFlag_None, reserveSize |-> 0, commitSize |-> 0,
             pBackingBuffer |-> NullAddr.blk]
\* No slot map created with a value size.
NoSized == [valueSize |-> 0, capacity |-> 0, count |-> 0, bytes |-> 0, offset |-> 0,
            made |-> FALSE, calls |-> 0]
\* hashMapCreate: an empty std::map and count 0; no call made yet.
hashMapCreate ==
    [map |-> <<>>, count |-> 0, calls |-> 0, expect |-> <<>>,
     last |-> [op |-> "create", key |-> "", value |-> 0, hadKey |-> FALSE, countBefore |-> 0]]
AuxIdle == params = NoParams /\ sized = NoSized /\ hmap = hashMapCreate
PackIdle == pack = NoPack /\ edge = NoEdge /\ AuxIdle

ArenaIdle ==
    /\ arena = NoArena
    /\ allocs = <<>>
    /\ runStart = 1
    /\ marks = {}
    /\ temps = <<>>
    /\ alast = [op |-> "none", size |-> 0, align |-> 1, ret |-> NullAddr, mark |-> NoMark,
                before |-> <<>>, posBefore |-> 0, dirty |-> FALSE]
    /\ ncalls = 0

----------------------------------------------------------------------------
(* Callers of the slot map: bookkeeping shared by Spec and SpecWrap *)

NoLive == [h \in {} |-> 0]

NoCall == [op |-> "none", arg |-> 0, hit |-> FALSE]

\* The record kept of a call: op, its argument, what it returned, whether the
\* handle passed to remove was valid, the arena outcome, the map before the
\* call and a summary of the call before it.
CallRecord(op, arg, ret, hit, outcome, before) ==
    [op |-> op, arg |-> arg, ret |-> ret, hit |-> hit, outcome |-> outcome,
     before |-> before,
     prior |-> [op |-> last.op, arg |-> last.arg, hit |-> last.hit]]

\* slotMapInsert(pMap, value) by a caller that keeps the returned handle.
\* A null pointer handed to memset (arenaPushArray after a failed push) is
\* undefined behaviour: the call either faults or carries on unharmed.
CallInsert(value, outcome, junk, crash) ==
    LET r == slotMapInsertImpl(map, value, outcome, junk)
    IN  /\ map' = r.map
        /\ fault' = (r.nullMemset /\ crash)
        /\ live' = IF r.ret # HANDLE_INVALID_ID
                   THEN [h \in (DOMAIN live) \cup {r.ret} |->
                            IF h = r.ret THEN value ELSE live[h]]
                   ELSE live
        /\ removed' = removed
        /\ last' = CallRecord("insert", value, r.ret, FALSE,
                              IF UGeq(map.count, map.capacity) THEN outcome ELSE "ok", map)
        /\ ops' = ops + 1

\* slotMapRemove(pMap, h).
CallRemove(h) ==
    /\ map' = slotMapRemoveImpl(map, h)
    /\ live' = [g \in (DOMAIN live) \ {h} |-> live[g]]
    /\ removed' = IF slotMapIsValidImpl(map, h) THEN removed \cup {h} ELSE removed
    /\ last' = CallRecord("remove", h, 0, slotMapIsValidImpl(map, h), "ok", map)
    /\ ops' = ops + 1
    /\ fault' = fault

----------------------------------------------------------------------------
(* Spec: one slot map, arbitrary inserts and removes *)

\* One cycle of insert(1); remove(that handle), recording the handle removed.
WarmCycle(st) ==
    LET r == slotMapInsertImpl(st.map, 1, "ok", 0)
    IN  [map |-> slotMapRemoveImpl(r.map, r.ret), removed |-> st.removed \cup {r.ret}]

\* The map after n such cycles (computed by halving, which keeps the
\* evaluation shallow).
RECURSIVE WarmUp(_, _)
WarmUp(st, n) ==
    IF n = 0 THEN st
    ELSE IF n = 1 THEN WarmCycle(st)
    ELSE LET mid == WarmUp(st, n \div 2)
         IN  IF mid = mid THEN WarmUp(mid, n - (n \div 2)) ELSE st

StartStates ==
    {[map |-> slotMapCreate(c, j), removed |-> {}] : c \in InitCaps, j \in Junk}
    \cup {WarmUp([map |-> slotMapCreate(c, 0), removed |-> {}], WarmGen) : c \in InitCaps}

\* Handles a caller may still hold and pass to remove: the live ones, the
\* ones removed (all but the oldest of the warm-up), and the sentinel.
RemoveArgs ==
    (DOMAIN live)
        \cup {h \in removed : handleIndex(h) # 0 \/ handleGeneration(h) + 2 >= WarmGen
                                \/ handleGeneration(h) < 3}
        \cup {HANDLE_INVALID_ID}

Init ==
    /\ \E st \in StartStates : map = st.map /\ removed = st.removed
    /\ live = NoLive
    /\ last = [op |-> "create", arg |-> 0, ret |-> 0, hit |-> FALSE, outcome |-> "ok",
               before |-> map, prior |-> NoCall]
    /\ ops = 0
    /\ fault = FALSE
    /\ handle = HANDLE_INVALID_ID
    /\ cyc = 0
    /\ wpc = "idle"
    /\ ArenaIdle
    /\ PackIdle

Insert ==
    /\ ~fault
    /\ ops < MaxOps
    /\ \E value \in Values :
         IF UGeq(map.count, map.capacity)
         THEN \E outcome \in GrowOutcomes, junk \in Junk :
                \E crash \in (IF outcome \in {"ok", "noValues"} THEN {FALSE} ELSE BOOLEAN) :
                    CallInsert(value, outcome, junk, crash)
         ELSE CallInsert(value, "ok", 0, FALSE)
    /\ UNCHANGED wrapVars
    /\ UNCHANGED arenaVars
    /\ UNCHANGED packVars

Remove ==
    /\ ~fault
    /\ ops < MaxOps
    /\ \E h \in RemoveArgs : CallRemove(h)
    /\ UNCHANGED wrapVars
    /\ UNCHANGED arenaVars
    /\ UNCHANGED packVars

Next == Insert \/ Remove

Spec == Init /\ [][Next]_vars

----------------------------------------------------------------------------
(* SpecWrap: the test "SlotMap generation wraparound survives" *)
(* (src/Tests/SlotMapTests.cpp lines 258-277)                   *)

WrapCapacity == 16
WrapValue == 1
WrapCycles == 300

InitWrap ==
    /\ map = slotMapCreate(WrapCapacity, 0)
    /\ removed = {}
    /\ live = NoLive
    /\ last = [op |-> "create", arg |-> 0, ret |-> 0, hit |-> FALSE, outcome |-> "ok",
               before |-> map, prior |-> NoCall]
    /\ ops = 0
    /\ fault = FALSE
    /\ handle = HANDLE_INVALID_ID
    /\ cyc = 0
    /\ wpc = "first"
    /\ ArenaIdle
    /\ PackIdle

\* uint32_t handle = slotMapInsert(pMap, value);
WrapFirstInsert ==
    /\ wpc = "first"
    /\ CallInsert(WrapValue, "ok", 0, FALSE)
    /\ handle' = slotMapInsertImpl(map, WrapValue, "ok", 0).ret
    /\ wpc' = "remove"
    /\ cyc' = cyc
    /\ UNCHANGED arenaVars
    /\ UNCHANGED packVars

\* slotMapRemove(pMap, handle);
WrapRemove ==
    /\ wpc = "remove"
    /\ cyc < WrapCycles
    /\ CallRemove(handle)
    /\ wpc' = "insert"
    /\ UNCHANGED <<handle, cyc>>
    /\ UNCHANGED arenaVars
    /\ UNCHANGED packVars

\* handle = slotMapInsert(pMap, value); i++
WrapInsert ==
    /\ wpc = "insert"
    /\ CallInsert(WrapValue, "ok", 0, FALSE)
    /\ handle' = slotMapInsertImpl(map, WrapValue, "ok", 0).ret
    /\ cyc' = cyc + 1
    /\ wpc' = "remove"
    /\ UNCHANGED arenaVars
    /\ UNCHANGED packVars

NextWrap == WrapFirstInsert \/ WrapRemove \/ WrapInsert

SpecWrap == InitWrap /\ [][NextWrap]_vars

----------------------------------------------------------------------------
(* SpecArena: one arena, pushes, writes, popTo to positions read earlier   *)
(* and properly nested temp scopes                                         *)

\* The ArenaParams the arenas are created with: a block that takes a 200-byte
\* push by growing its commit, one that a 200-byte push fills to its last
\* byte, one that a 200-byte push overflows, and one that may not chain.
Configs ==
    {[flags |-> ArenaFlag_None, reserveSize |-> 512, commitSize |-> 256],
     [flags |-> ArenaFlag_None, reserveSize |-> 328, commitSize |-> 64],
     [flags |-> ArenaFlag_None, reserveSize |-> 256, commitSize |-> 64],
     [flags |-> ArenaFlag_NoChain, reserveSize |-> 256, commitSize |-> 64]}
Sizes == {1, 200}                               \* sizes pushed
Aligns == {8, 64}                               \* alignments pushed with in SpecArena
AllAligns == {1, 2, 4, 8, 16, 32, 64, 128}      \* alignments pushed with in SpecAlign

\* What a caller knows when it reads the position: the position, and (for the
\* claims) the block that is current, its cursor and its place in the chain.
MarkNow(A) ==
    [pos |-> arenaGetPos(A), region |-> pCurrent(A).region,
     local |-> pCurrent(A).pos, depth |-> Len(A.blocks)]

ArenaCall(op, size, align, ret, mark) ==
    [op |-> op, size |-> size, align |-> align, ret |-> ret, mark |-> mark,
     before |-> arena.blocks, posBefore |-> arenaGetPos(arena), dirty |-> FALSE]

SlotMapIdle ==
    /\ map = slotMapCreate(1, 0)
    /\ removed = {}
    /\ live = NoLive
    /\ last = [op |-> "none", arg |-> 0, ret |-> 0, hit |-> FALSE, outcome |-> "ok",
               before |-> map, prior |-> NoCall]
    /\ ops = 0
    /\ fault = FALSE
    /\ handle = HANDLE_INVALID_ID
    /\ cyc = 0
    /\ wpc = "idle"

InitArena ==
    /\ SlotMapIdle
    /\ PackIdle
    /\ \E c \in Configs : arena = arenaCreate(c.flags, c.reserveSize, c.commitSize)
    /\ allocs = <<>>
    /\ runStart = 1
    /\ marks = {}
    /\ temps = <<>>
    /\ alast = [op |-> "create", size |-> 0, align |-> 1, ret |-> NullAddr, mark |-> NoMark,
                before |-> arena.blocks, posBefore |-> ARENA_HEADER_SIZE, dirty |-> FALSE]
    /\ ncalls = 0

\* The allocations a pop to position p leaves: those that end at or below p.
Surviving(as, p) == SelectSeq(as, LAMBDA a : a.gend <= p)

\* void* p = arenaPush(pArena, size, align); the caller keeps p.  A platform
\* failure is offered only where the push makes that platform call.
CallPush(size, align, platform) ==
    LET r == arenaPush(arena, size, align, platform)
    IN  /\ platform # "ok" =>
              r.ret = NullAddr /\ arenaPush(arena, size, align, "ok").ret # NullAddr
        /\ arena' = r.arena
        /\ allocs' = IF r.ret # NullAddr
                     THEN Append(allocs,
                              [blk |-> r.ret.blk, off |-> r.ret.off, size |-> size,
                               gend |-> pCurrent(r.arena).basePos + r.ret.off + size,
                               written |-> FALSE])
                     ELSE allocs
        /\ alast' = ArenaCall("push", size, align, r.ret, NoMark)
        /\ ncalls' = ncalls + 1

Push ==
    /\ arena.blocks # <<>>
    /\ ncalls < MaxCalls
    /\ \E size \in Sizes, align \in Aligns, platform \in {"ok", "reserve", "commit"} :
          CallPush(size, align, platform)
    /\ UNCHANGED <<runStart, marks, temps>>
    /\ UNCHANGED smVars
    /\ UNCHANGED packVars
    /\ UNCHANGED wrapVars

\* The caller fills an allocation with a byte value of its own (its index);
\* it fills its allocations in the order it obtained them.
Write ==
    /\ \E i \in 1..Len(allocs) :
          /\ ~allocs[i].written
          /\ \A j \in 1..(i - 1) : allocs[j].written
          /\ arena' = [arena EXCEPT !.mem =
                          Store(arena.mem, allocs[i].blk, allocs[i].off,
                                allocs[i].off + allocs[i].size, i)]
          /\ allocs' = [allocs EXCEPT ![i].written = TRUE]
          /\ alast' = ArenaCall("write", allocs[i].size, 1,
                                [blk |-> allocs[i].blk, off |-> allocs[i].off], NoMark)
    /\ UNCHANGED <<runStart, marks, temps, ncalls>>
    /\ UNCHANGED smVars
    /\ UNCHANGED packVars
    /\ UNCHANGED wrapVars

\* uint64_t pos = arenaGetPos(pArena);
GetPos ==
    /\ arena.blocks # <<>>
    /\ ncalls < MaxCalls
    /\ marks' = marks \cup {MarkNow(arena)}
    /\ alast' = ArenaCall("getPos", 0, 1, NullAddr, MarkNow(arena))
    /\ ncalls' = ncalls + 1
    /\ UNCHANGED <<arena, allocs, runStart, temps>>
    /\ UNCHANGED smVars
    /\ UNCHANGED packVars
    /\ UNCHANGED wrapVars

\* arenaPopTo(pArena, pos) with a position read earlier that no pop has gone
\* below since, and not below the start of an open temp scope.
PopTo ==
    /\ \E m \in marks :
          /\ temps # <<>> => m.pos >= temps[Len(temps)].temp.pos
          /\ arena' = arenaPopTo(arena, m.pos)
          /\ marks' = {x \in marks : x.pos <= m.pos}
          /\ allocs' = Surviving(allocs, m.pos)
          /\ runStart' = Len(Surviving(allocs, m.pos)) + 1
          /\ alast' = ArenaCall("popTo", 0, 1, NullAddr, m)
    /\ UNCHANGED <<temps, ncalls>>
    /\ UNCHANGED smVars
    /\ UNCHANGED packVars
    /\ UNCHANGED wrapVars

\* ArenaTemp temp = arenaTempBegin(pArena);
TempBegin ==
    /\ arena.blocks # <<>>
    /\ ncalls < MaxCalls
    /\ temps' = Append(temps, [temp |-> arenaTempBegin(arena), mark |-> MarkNow(arena)])
    /\ alast' = ArenaCall("tempBegin", 0, 1, NullAddr, MarkNow(arena))
    /\ ncalls' = ncalls + 1
    /\ UNCHANGED <<arena, allocs, runStart, marks>>
    /\ UNCHANGED smVars
    /\ UNCHANGED packVars
    /\ UNCHANGED wrapVars

\* arenaTempEnd(temp) for the innermost open scope.
TempEnd ==
    /\ arena.blocks # <<>>
    /\ temps # <<>>
    /\ LET t == temps[Len(temps)]
       IN  /\ arena' = arenaTempEnd(arena, t.temp)
           /\ temps' = SubSeq(temps, 1, Len(temps) - 1)
           /\ marks' = {x \in marks : x.pos <= t.temp.pos}
           /\ allocs' = Surviving(allocs, t.temp.pos)
           /\ runStart' = Len(Surviving(allocs, t.temp.pos)) + 1
           /\ alast' = ArenaCall("tempEnd", 0, 1, NullAddr, t.mark)
    /\ UNCHANGED ncalls
    /\ UNCHANGED smVars
    /\ UNCHANGED packVars
    /\ UNCHANGED wrapVars

NextArena == Push \/ Write \/ GetPos \/ PopTo \/ TempBegin \/ TempEnd

SpecArena == InitArena /\ [][NextArena]_vars

----------------------------------------------------------------------------
(* SpecAlign: one arena, pushes of every alignment and pops by an amount,  *)
(* by a caller that looks at the address a push returns and keeps nothing  *)

PopAmounts == {1, 200}

\* void* p = arenaPush(pArena, size, align);
PushAligned ==
    /\ ncalls < MaxAlignCalls
    /\ \E size \in Sizes, align \in AllAligns :
          /\ arena' = arenaPush(arena, size, align, "ok").arena
          /\ alast' = ArenaCall("push", size, align,
                                arenaPush(arena, size, align, "ok").ret, NoMark)
    /\ ncalls' = ncalls + 1
    /\ UNCHANGED <<allocs, runStart, marks, temps>>
    /\ UNCHANGED smVars
    /\ UNCHANGED packVars
    /\ UNCHANGED wrapVars

\* arenaPop(pArena, amount);
PopSome ==
    /\ ncalls < MaxAlignCalls
    /\ \E amount \in PopAmounts :
          /\ arena' = arenaPop(arena, amount)
          /\ alast' = ArenaCall("pop", amount, 1, NullAddr, NoMark)
    /\ ncalls' = ncalls + 1
    /\ UNCHANGED <<allocs, runStart, marks, temps>>
    /\ UNCHANGED smVars
    /\ UNCHANGED packVars
    /\ UNCHANGED wrapVars

NextAlign == PushAligned \/ PopSome

SpecAlign == InitArena /\ [][NextAlign]_vars

----------------------------------------------------------------------------
(* SpecRoll: one arena (or a failed arenaCreate), pushes, pops by any       *)
(* amount, clear, temp scopes and a final arenaRelease                      *)

\* Amounts popped: -1 stands for 2^64 - 1.
RollAmounts == {1, 200, -1}

InitRoll ==
    /\ SlotMapIdle
    /\ PackIdle
    /\ \/ \E c \in Configs : arena = arenaCreate(c.flags, c.reserveSize, c.commitSize)
       \/ \E platform \in {"reserve", "commit"} : arena = arenaCreateFailed(platform)
    /\ allocs = <<>>
    /\ runStart = 1
    /\ marks = {}
    /\ temps = <<>>
    /\ alast = [op |-> IF arena.blocks = <<>> THEN "createFailed" ELSE "create",
                size |-> 0, align |-> 1, ret |-> NullAddr, mark |-> NoMark,
                before |-> arena.blocks, posBefore |-> ARENA_HEADER_SIZE, dirty |-> FALSE]
    /\ ncalls = 0

\* arenaPop(pArena, amount);
Pop ==
    /\ arena.blocks # <<>>
    /\ ncalls < MaxCalls
    /\ \E amount \in RollAmounts :
          /\ arena' = arenaPop(arena, amount)
          /\ allocs' = Surviving(allocs, arenaGetPos(arenaPop(arena, amount)))
          /\ runStart' = Len(Surviving(allocs, arenaGetPos(arenaPop(arena, amount)))) + 1
          /\ marks' = {x \in marks : x.pos <= arenaGetPos(arenaPop(arena, amount))}
          /\ alast' = ArenaCall("pop", amount, 1, NullAddr, NoMark)
    /\ ncalls' = ncalls + 1
    /\ UNCHANGED temps
    /\ UNCHANGED smVars
    /\ UNCHANGED packVars
    /\ UNCHANGED wrapVars

\* arenaClear(pArena);
Clear ==
    /\ arena.blocks # <<>>
    /\ ncalls < MaxCalls
    /\ arena' = arenaClear(arena)
    /\ allocs' = <<>>
    /\ runStart' = 1
    /\ marks' = {x \in marks : x.pos <= ARENA_HEADER_SIZE}
    /\ alast' = ArenaCall("clear", 0, 1, NullAddr, NoMark)
    /\ ncalls' = ncalls + 1
    /\ UNCHANGED temps
    /\ UNCHANGED smVars
    /\ UNCHANGED packVars
    /\ UNCHANGED wrapVars

\* arenaRelease(pArena); the handle is dead afterwards.
Release ==
    /\ arena.blocks # <<>>
    /\ arena' = arenaRelease(arena)
    /\ allocs' = <<>>
    /\ runStart' = 1
    /\ marks' = {}
    /\ temps' = <<>>
    /\ alast' = ArenaCall("release", 0, 1, NullAddr, NoMark)
    /\ UNCHANGED ncalls
    /\ UNCHANGED smVars
    /\ UNCHANGED packVars
    /\ UNCHANGED wrapVars

NextRoll == Push \/ Pop \/ Clear \/ GetPos \/ PopTo \/ TempBegin \/ TempEnd \/ Release

SpecRoll == InitRoll /\ [][NextRoll]_vars

----------------------------------------------------------------------------
(* SpecAny: one arena, pushes, pops of any amount, pops to any position,   *)
(* clears and temp scopes                                                  *)

\* Positions popped to: below the header, inside a chained block's header or
\* above the position of a fresh arena, and above every position reached.
PopTargets == {0, 300, 1000}

\* arenaPopTo(pArena, targetPos); with a position the caller chose.
PopToAny ==
    /\ arena.blocks # <<>>
    /\ ncalls < MaxCalls
    /\ \E targetPos \in PopTargets :
          /\ arena' = arenaPopTo(arena, targetPos)
          /\ allocs' = Surviving(allocs, arenaGetPos(arenaPopTo(arena, targetPos)))
          /\ marks' = {x \in marks : x.pos <= arenaGetPos(arenaPopTo(arena, targetPos))}
          /\ alast' = ArenaCall("popToAny", targetPos, 1, NullAddr, NoMark)
    /\ runStart' = Len(allocs') + 1
    /\ ncalls' = ncalls + 1
    /\ UNCHANGED temps
    /\ UNCHANGED smVars
    /\ UNCHANGED packVars
    /\ UNCHANGED wrapVars

NextAny == Push \/ Pop \/ PopToAny \/ Clear \/ TempBegin \/ TempEnd

SpecAny == InitArena /\ [][NextAny]_vars

----------------------------------------------------------------------------
(* SpecChain: one arena, pushes with alignments up to twice the header size *)

OverAligns == {8, 128, 256}

\* void* p = arenaPush(pArena, size, align); every platform call succeeds.
\* A call that is still chaining after MaxChain blocks chains for ever (each
\* new block has the size of the one before): it never returns and the
\* process ends when the stack is exhausted.
PushOver ==
    /\ ~fault
    /\ ncalls < MaxAlignCalls
    /\ \E size \in Sizes, align \in OverAligns :
          IF ChainCount(pCurrent(arena), size, align, MaxChain) < MaxChain
          THEN /\ arena' = arenaPush(arena, size, align, "ok").arena
               /\ alast' = ArenaCall("push", size, align,
                                     arenaPush(arena, size, align, "ok").ret, NoMark)
               /\ fault' = FALSE
          ELSE /\ arena' = ChainBlocks(arena, size, MaxChain)
               /\ alast' = ArenaCall("push", size, align, NullAddr, NoMark)
               /\ fault' = TRUE
    /\ ncalls' = ncalls + 1
    /\ UNCHANGED <<allocs, runStart, marks, temps>>
    /\ UNCHANGED <<map, live, removed, last, ops>>
    /\ UNCHANGED packVars
    /\ UNCHANGED wrapVars

NextChain == PushOver

SpecChain == InitArena /\ [][NextChain]_vars

----------------------------------------------------------------------------
(* SpecFail: one arena, pushes of any size and alignment that return, each *)
(* with one platform call failing or none                                  *)

\* void* p = arenaPush(pArena, size, align);  A platform failure is offered
\* where it makes the push return null; with no failure only the calls that
\* return are made.
PushFailing ==
    /\ ncalls < MaxAlignCalls
    /\ \E size \in Sizes \cup {0}, align \in OverAligns,
          platform \in {"ok", "reserve", "commit", "retry"} :
          /\ platform = "ok" =>
                ChainCount(pCurrent(arena), size, align, MaxChain) < MaxChain
          /\ platform # "ok" =>
                arenaPush(arena, size, align, platform).ret = NullAddr /\ size # 0
          /\ arena' = arenaPush(arena, size, align, platform).arena
          /\ alast' = ArenaCall("push", size, align,
                                arenaPush(arena, size, align, platform).ret, NoMark)
    /\ ncalls' = ncalls + 1
    /\ UNCHANGED <<allocs, runStart, marks, temps>>
    /\ UNCHANGED smVars
    /\ UNCHANGED packVars
    /\ UNCHANGED wrapVars

NextFail == PushFailing

SpecFail == InitArena /\ [][NextFail]_vars

----------------------------------------------------------------------------
(* SpecWide: one arena, pushes whose size is any uint64_t *)

\* Sizes from both ends of uint64_t: -100 stands for 2^64 - 100.
WideSizes == {1, 200, -100}

\* void* p = arenaPush(pArena, size, align); the caller keeps p.
PushWide ==
    /\ ncalls < MaxWideCalls
    /\ \E size \in WideSizes, align \in Aligns, platform \in {"ok", "reserve", "commit"} :
          CallPush(size, align, platform)
    /\ UNCHANGED <<runStart, marks, temps>>
    /\ UNCHANGED smVars
    /\ UNCHANGED packVars
    /\ UNCHANGED wrapVars

NextWide == PushWide

SpecWide == InitArena /\ [][NextWide]_vars

----------------------------------------------------------------------------
(* SpecBacked: arenas created with and without a caller-provided backing   *)
(* buffer, then pushed into                                                *)

\* The region of the buffer the caller owns; the platform provider numbers
\* the regions it reserves from 1 and never hands this one out.
CallerBuffer == 64
BackingBuffers == {NullAddr.blk, CallerBuffer}

InitBacked ==
    /\ SlotMapIdle
    /\ pack = NoPack
    /\ edge = NoEdge
    /\ \E c \in Configs, buf \in BackingBuffers :
          /\ params = [flags |-> c.flags, reserveSize |-> c.reserveSize,
                       commitSize |-> c.commitSize, pBackingBuffer |-> buf]
          /\ arena = arenaCreateParams(params)
    /\ sized = NoSized
    /\ hmap = hashMapCreate
    /\ allocs = <<>>
    /\ runStart = 1
    /\ marks = {}
    /\ temps = <<>>
    /\ alast = [op |-> "create", size |-> 0, align |-> 1, ret |-> NullAddr, mark |-> NoMark,
                before |-> arena.blocks, posBefore |-> ARENA_HEADER_SIZE, dirty |-> FALSE]
    /\ ncalls = 0

NextBacked == PushWide

SpecBacked == InitBacked /\ [][NextBacked]_vars

----------------------------------------------------------------------------
(* SpecHandle: handleMake applied to an index and a generation *)

\* Indices and generations given to handleMake: both ends of the 24-bit
\* range, values around the byte boundaries, and values wider than the field
\* (-1 stands for 0xFFFFFFFF); every generation of the 8-bit range and some
\* wider ones.
PackIndices == {0, 1, 2, 255, 256, 12345, 65535, 65536, 16777214, 16777215,
                16777216, 16777217, 33554431, -1}
PackGenerations == (0..257) \cup {511, 512, 65535, -1}

InitHandle ==
    /\ SlotMapIdle
    /\ ArenaIdle
    /\ \E index \in PackIndices, generation \in PackGenerations :
          pack = [index |-> index, generation |-> generation, id |-> 0, made |-> FALSE]
    /\ edge = NoEdge
    /\ AuxIdle

\* uint32_t handle = handleMake(index, generation);
Make ==
    /\ ~pack.made
    /\ pack' = [pack EXCEPT !.id = handleMake(pack.index, pack.generation),
                             !.made = TRUE]
    /\ UNCHANGED edge
    /\ UNCHANGED auxVars
    /\ UNCHANGED smVars
    /\ UNCHANGED wrapVars
    /\ UNCHANGED arenaVars

NextHandle == Make

SpecHandle == InitHandle /\ [][NextHandle]_vars

----------------------------------------------------------------------------
(* SpecFull: a slot map created with initialCapacity 2^24, the number of    *)
(* values the index field of a handle can take, after all but the last     *)
(* FullWindow slots have been filled by inserts.  The arrays are held for  *)
(* those last slots only: the calls made read and write no other entry.    *)

FullCapacity == HANDLE_INDEX_MASK + 1

FullSlots == (FullCapacity - FullWindow)..(FullCapacity - 1)

\* slotMapCreate(pArena, valueSize, valueAlign, FullCapacity) followed by
\* FullCapacity - FullWindow inserts and no remove.
FullStart(junk) ==
    [capacity     |-> FullCapacity,
     count        |-> FullCapacity - FullWindow,
     freeHead     |-> UINT32_MAX,
     pValues      |-> [i \in FullSlots |-> junk],
     pIndices     |-> [i \in FullSlots |-> UINT32_MAX],
     pGenerations |-> [i \in FullSlots |-> 0],
     pErase       |-> [i \in FullSlots |-> 0]]

RECURSIVE FillTo(_, _)
\* inserts of the value 10 until count reaches n; the handles are kept
FillTo(st, n) ==
    IF UGeq(st.map.count, n) THEN st
    ELSE LET r == slotMapInsertImpl(st.map, 10, "ok", 0)
         IN  FillTo([map |-> r.map, removed |-> st.removed, live |-> (r.ret :> 10) @@ st.live], n)

\* The starts of SpecFull: the map as above, and the map after the inserts
\* that leave one slot unused followed by WarmGen cycles of insert and remove,
\* which all use that last slot.
FullStates ==
    {[map |-> FullStart(j), removed |-> {}, live |-> NoLive] : j \in Junk}
    \cup {LET f == FillTo([map |-> FullStart(0), removed |-> {}, live |-> NoLive],
                          FullCapacity - 1)
              w == WarmUp([map |-> f.map, removed |-> {}], WarmGen)
          IN  [map |-> w.map, removed |-> w.removed, live |-> f.live]}

InitFull ==
    /\ \E st \in FullStates : map = st.map /\ removed = st.removed /\ live = st.live
    /\ last = [op |-> "create", arg |-> 0, ret |-> 0, hit |-> FALSE, outcome |-> "ok",
               before |-> map, prior |-> NoCall]
    /\ ops = 0
    /\ fault = FALSE
    /\ handle = HANDLE_INVALID_ID
    /\ cyc = 0
    /\ wpc = "idle"
    /\ ArenaIdle
    /\ PackIdle

\* slotMapInsert(pMap, value); when the map is full the arena is taken not to
\* supply a values array of twice the size.
FullInsert ==
    /\ ~fault
    /\ ops < MaxFullOps
    /\ \E value \in Values :
         IF UGeq(map.count, map.capacity)
         THEN CallInsert(value, "noValues", 0, FALSE)
         ELSE CallInsert(value, "ok", 0, FALSE)
    /\ UNCHANGED wrapVars
    /\ UNCHANGED arenaVars
    /\ UNCHANGED packVars

\* slotMapRemove(pMap, h) with a handle an insert returned, or the sentinel.
FullRemove ==
    /\ ~fault
    /\ ops < MaxFullOps
    /\ \E h \in (DOMAIN live) \cup {HANDLE_INVALID_ID} : CallRemove(h)
    /\ UNCHANGED wrapVars
    /\ UNCHANGED arenaVars
    /\ UNCHANGED packVars

NextFull == FullInsert \/ FullRemove

SpecFull == InitFull /\ [][NextFull]_vars

----------------------------------------------------------------------------
(* SpecZero: one arena, pushes through arenaPush and the three template     *)
(* helpers, writes into what was pushed, and pops                          *)

PushKinds == {"arenaPush", "arenaPushStruct", "arenaPushArray", "arenaPushArrayNoZero"}
ElemTypes == {[sizeof |-> 4, alignof |-> 4], [sizeof |-> 64, alignof |-> 64]}
ElemCounts == {3}

\* The call of kind k for the type T and the element count n
TypedPush(k, A, T, n, platform) ==
    CASE k = "arenaPush" ->
             [arena |-> arenaPush(A, T.sizeof * n, 8, platform).arena,
              ret |-> arenaPush(A, T.sizeof * n, 8, platform).ret,
              nullMemset |-> FALSE]
      [] k = "arenaPushStruct" -> arenaPushStruct(A, T.sizeof, T.alignof, platform)
      [] k = "arenaPushArray" -> arenaPushArray(A, T.sizeof, T.alignof, n, platform)
      [] k = "arenaPushArrayNoZero" -> arenaPushArrayNoZero(A, T.sizeof, T.alignof, n, platform)

\* T* p = arenaPushStruct<T>(pArena); and the like.  A null pointer handed to
\* memset may fault (crash) or not.
PushTyped ==
    /\ ~fault
    /\ arena.blocks # <<>>
    /\ ncalls < MaxZeroCalls
    /\ \E k \in PushKinds, T \in ElemTypes, n \in ElemCounts,
          platform \in {"ok", "reserve", "commit"}, crash \in BOOLEAN :
          LET r    == TypedPush(k, arena, T, n, platform)
              size == IF k = "arenaPushStruct" THEN T.sizeof ELSE T.sizeof * n
          IN  /\ platform # "ok" =>
                    r.ret = NullAddr /\ TypedPush(k, arena, T, n, "ok").ret # NullAddr
              /\ crash => r.nullMemset
              /\ fault' = crash
              /\ arena' = r.arena
              /\ allocs' = IF r.ret # NullAddr
                           THEN Append(allocs,
                                    [blk |-> r.ret.blk, off |-> r.ret.off, size |-> size,
                                     gend |-> pCurrent(r.arena).basePos + r.ret.off + size,
                                     written |-> FALSE])
                           ELSE allocs
              /\ alast' = [ArenaCall(k, size, TemplateAlign(T.alignof), r.ret, NoMark)
                              EXCEPT !.dirty =
                                  /\ r.ret # NullAddr
                                  /\ \E e \in arena.mem :
                                        /\ e.blk = r.ret.blk
                                        /\ e.lo < r.ret.off + size
                                        /\ e.hi > r.ret.off
                                        /\ e.val \notin {ZeroByte, HeaderByte}]
    /\ ncalls' = ncalls + 1
    /\ UNCHANGED <<runStart, marks, temps>>
    /\ UNCHANGED <<map, live, removed, last, ops>>
    /\ UNCHANGED packVars
    /\ UNCHANGED wrapVars

\* The caller fills the allocation it obtained last.
Fill ==
    /\ ~fault
    /\ allocs # <<>>
    /\ ~allocs[Len(allocs)].written
    /\ LET i == Len(allocs)
       IN  /\ arena' = [arena EXCEPT !.mem =
                           Store(arena.mem, allocs[i].blk, allocs[i].off,
                                 allocs[i].off + allocs[i].size, i)]
           /\ allocs' = [allocs EXCEPT ![i].written = TRUE]
           /\ alast' = ArenaCall("write", allocs[i].size, 1,
                                 [blk |-> allocs[i].blk, off |-> allocs[i].off], NoMark)
    /\ UNCHANGED <<runStart, marks, temps, ncalls>>
    /\ UNCHANGED smVars
    /\ UNCHANGED packVars
    /\ UNCHANGED wrapVars

\* arenaPop(pArena, amount);
PopBack ==
    /\ ~fault
    /\ arena.blocks # <<>>
    /\ ncalls < MaxZeroCalls
    /\ \E amount \in {4, 200} :
          /\ arena' = arenaPop(arena, amount)
          /\ allocs' = Surviving(allocs, arenaGetPos(arenaPop(arena, amount)))
          /\ alast' = ArenaCall("pop", amount, 1, NullAddr, NoMark)
    /\ ncalls' = ncalls + 1
    /\ UNCHANGED <<runStart, marks, temps>>
    /\ UNCHANGED smVars
    /\ UNCHANGED packVars
    /\ UNCHANGED wrapVars

NextZero == PushTyped \/ Fill \/ PopBack

SpecZero == InitArena /\ [][NextZero]_vars

----------------------------------------------------------------------------
(* SpecBytes: slot maps of any value size and capacity, the byte counts    *)
(* asked of the arena for the value buffer and the offsets written at      *)

ValueSizes == {1, 4, 65536, 65537}
Capacities == {1, 2, 4, 32768, 65536}

\* slotMapCreate(pArena, valueSize, valueAlign, initialCapacity): the value
\* buffer is arenaPush(pArena, valueSize * initialCapacity, ...) with the
\* product taken in uint32_t; a product of 0 makes arenaPush return null and
\* slotMapCreate with it.
CreateSized(valueSize, initialCapacity) ==
    [valueSize |-> valueSize, capacity |-> initialCapacity, count |-> 0,
     bytes |-> UMul(valueSize, initialCapacity), offset |-> 0,
     made |-> UMul(valueSize, initialCapacity) # 0, calls |-> 0]

\* slotMapGrow: newCapacity = capacity * 2 and a value buffer of
\* valueSize * newCapacity bytes, both in uint32_t; when arenaPush returns
\* null (size 0) the map is left as it was.
GrowSized(z) ==
    LET newCapacity == UDouble(z.capacity)
    IN  IF UMul(z.valueSize, newCapacity) = 0 THEN z
        ELSE [z EXCEPT !.capacity = newCapacity,
                       !.bytes = UMul(z.valueSize, newCapacity)]

\* slotMapInsertImpl: grows when count >= capacity, gives up when that did
\* not help, and copies the value to pValues + denseIndex * valueSize.
InsertSizedImpl(z) ==
    LET g == IF UGeq(z.count, z.capacity) THEN GrowSized(z) ELSE z
    IN  IF UGeq(g.count, g.capacity) THEN z
        ELSE [g EXCEPT !.offset = UMul(g.count, g.valueSize), !.count = UInc(g.count)]

\* The maps start empty or one insert short of full.
InitBytes ==
    /\ SlotMapIdle
    /\ ArenaIdle
    /\ pack = NoPack
    /\ edge = NoEdge
    /\ params = NoParams
    /\ hmap = hashMapCreate
    /\ \E valueSize \in ValueSizes, capacity \in Capacities, nearlyFull \in BOOLEAN :
          sized = [CreateSized(valueSize, capacity) EXCEPT
                      !.count = IF nearlyFull /\ CreateSized(valueSize, capacity).made
                                THEN capacity - 1 ELSE 0]

\* slotMapInsert(pSlotMap, &value);
InsertSized ==
    /\ sized.made
    /\ sized.calls < MaxSizedCalls
    /\ sized' = [InsertSizedImpl(sized) EXCEPT !.calls = sized.calls + 1]
    /\ UNCHANGED <<pack, edge, params, hmap>>
    /\ UNCHANGED smVars
    /\ UNCHANGED arenaVars
    /\ UNCHANGED wrapVars

NextBytes == InsertSized

SpecBytes == InitBytes /\ [][NextBytes]_vars

----------------------------------------------------------------------------
(* HashMap.cpp, and SpecHash: one hash map, arbitrary inserts and removes *)

HashKeys == {"a", "b", "c"}

\* hashMapInsertImpl storing the value again and counting the key again
hashMapInsertImpl_CountsReplace(m, count, key, value) ==
    [map |-> [k \in (DOMAIN m) \cup {key} |-> IF k = key THEN value ELSE m[k]],
     count |-> UInc(count)]

\* hashMapInsertImpl with non-null arguments: the value of a key found is
\* overwritten; a key not found gets new storage and count is incremented.
hashMapInsertImpl(m, count, key, value) ==
    IF key \in DOMAIN m
    THEN [map |-> [m EXCEPT ![key] = value], count |-> count]
    ELSE [map |-> [k \in (DOMAIN m) \cup {key} |-> IF k = key THEN value ELSE m[k]],
          count |-> UInc(count)]

\* hashMapGetImpl: the storage of the key (its content here), or null.
hashMapGetImpl(m, key) == IF key \in DOMAIN m THEN m[key] ELSE NullPtr

hashMapContains(m, key) == key \in DOMAIN m

\* hashMapRemove: a key found is erased and count decremented.
hashMapRemove(m, count, key) ==
    IF key \in DOMAIN m
    THEN [map |-> [k \in (DOMAIN m) \ {key} |-> m[k]], count |-> count - 1]
    ELSE [map |-> m, count |-> count]

hashMapCount(count) == count

InitHash ==
    /\ SlotMapIdle
    /\ ArenaIdle
    /\ pack = NoPack
    /\ edge = NoEdge
    /\ params = NoParams
    /\ sized = NoSized
    /\ hmap = hashMapCreate

\* hashMapInsert(pMap, key, value); the caller notes what it stored.
HashInsert ==
    /\ hmap.calls < MaxHashCalls
    /\ \E key \in HashKeys, value \in Values :
          LET r == hashMapInsertImpl(hmap.map, hmap.count, key, value)
          IN  hmap' = [map |-> r.map, count |-> r.count, calls |-> hmap.calls + 1,
                       expect |-> [k \in (DOMAIN hmap.expect) \cup {key} |->
                                      IF k = key THEN value ELSE hmap.expect[k]],
                       last |-> [op |-> "insert", key |-> key, value |-> value,
                                 hadKey |-> key \in DOMAIN hmap.expect,
                                 countBefore |-> hashMapCount(hmap.count)]]
    /\ UNCHANGED <<pack, edge, params, sized>>
    /\ UNCHANGED smVars
    /\ UNCHANGED arenaVars
    /\ UNCHANGED wrapVars

\* hashMapRemove(pMap, key); of a key present or absent.
HashRemove ==
    /\ hmap.calls < MaxHashCalls
    /\ \E key \in HashKeys :
          LET r == hashMapRemove(hmap.map, hmap.count, key)
          IN  hmap' = [map |-> r.map, count |-> r.count, calls |-> hmap.calls + 1,
                       expect |-> [k \in (DOMAIN hmap.expect) \ {key} |-> hmap.expect[k]],
                       last |-> [op |-> "remove", key |-> key, value |-> 0,
                                 hadKey |-> key \in DOMAIN hmap.expect,
                                 countBefore |-> hashMapCount(hmap.count)]]
    /\ UNCHANGED <<pack, edge, params, sized>>
    /\ UNCHANGED smVars
    /\ UNCHANGED arenaVars
    /\ UNCHANGED wrapVars

NextHash == HashInsert \/ HashRemove

SpecHash == InitHash /\ [][NextHash]_vars

----------------------------------------------------------------------------
(* SpecEdge: one arena and one slot map in use, and calls of the entry      *)
(* points with a null arena, a null slot map, a zero size, a zero capacity *)
(* or a null value pointer                                                 *)

ArenaEdgeCalls ==
    {"arenaPush(nullptr)", "arenaPush(size 0)", "arenaGetPos(nullptr)",
     "arenaPopTo(nullptr)", "arenaPop(nullptr)", "arenaClear(nullptr)",
     "arenaRelease(nullptr)", "arenaTempEnd(nullptr)"}

SlotMapEdgeCalls ==
    {"slotMapCreate(nullptr)", "slotMapCreate(valueSize 0)", "slotMapCreate(capacity 0)",
     "slotMapInsert(nullptr)", "slotMapInsert(value nullptr)", "slotMapGet(nullptr)",
     "slotMapRemove(nullptr)", "slotMapIsValid(nullptr)", "slotMapCount(nullptr)",
     "slotMapCapacity(nullptr)"}

\* The arena left and the value returned by an arena call of ArenaEdgeCalls
\* made with the number n (a size, a position or an amount).
ArenaEdge(call, A, n) ==
    CASE call = "arenaPush(nullptr)"  -> arenaPushAt(nullptr, A, n, 8, "ok")
      [] call = "arenaPush(size 0)"   -> arenaPushAt("object", A, 0, 8, "ok")
      [] call = "arenaGetPos(nullptr)" -> [arena |-> A, ret |-> arenaGetPosAt(nullptr, A)]
      [] call = "arenaPopTo(nullptr)" -> [arena |-> arenaPopToAt(nullptr, A, n), ret |-> "void"]
      [] call = "arenaPop(nullptr)"   -> [arena |-> arenaPopAt(nullptr, A, n), ret |-> "void"]
      [] call = "arenaClear(nullptr)" -> [arena |-> arenaClearAt(nullptr, A), ret |-> "void"]
      [] call = "arenaRelease(nullptr)" -> [arena |-> arenaReleaseAt(nullptr, A), ret |-> "void"]
      [] call = "arenaTempEnd(nullptr)" ->
             [arena |-> arenaTempEndAt(A, arenaTempBeginAt(nullptr, A)), ret |-> "void"]

\* The map left and the value returned by a slot-map call of SlotMapEdgeCalls
\* made with the handle h and the value v.
SlotMapEdge(call, m, h, v) ==
    CASE call = "slotMapCreate(nullptr)" ->
             [map |-> m, ret |-> slotMapCreateAt(nullptr, 4, 16, 0).pSlotMap, nullMemset |-> FALSE]
      [] call = "slotMapCreate(valueSize 0)" ->
             [map |-> m, ret |-> slotMapCreateAt("object", 0, 16, 0).pSlotMap, nullMemset |-> FALSE]
      [] call = "slotMapCreate(capacity 0)" ->
             [map |-> m, ret |-> slotMapCreateAt("object", 4, 0, 0).pSlotMap, nullMemset |-> FALSE]
      [] call = "slotMapInsert(nullptr)" -> slotMapInsertAt(nullptr, m, "object", v, "ok", 0)
      [] call = "slotMapInsert(value nullptr)" -> slotMapInsertAt("object", m, nullptr, v, "ok", 0)
      [] call = "slotMapGet(nullptr)" ->
             [map |-> m, ret |-> slotMapGetAt(nullptr, m, h), nullMemset |-> FALSE]
      [] call = "slotMapRemove(nullptr)" ->
             [map |-> slotMapRemoveAt(nullptr, m, h), ret |-> "void", nullMemset |-> FALSE]
      [] call = "slotMapIsValid(nullptr)" ->
             [map |-> m, ret |-> slotMapIsValidAt(nullptr, m, h), nullMemset |-> FALSE]
      [] call = "slotMapCount(nullptr)" ->
             [map |-> m, ret |-> slotMapCountAt(nullptr, m), nullMemset |-> FALSE]
      [] call = "slotMapCapacity(nullptr)" ->
             [map |-> m, ret |-> slotMapCapacityAt(nullptr, m), nullMemset |-> FALSE]

\* The slot map in use: slotMapCreate(pArena, valueSize, valueAlign, 4) and up
\* to two inserts.
EdgeMaps ==
    {FillTo([map |-> slotMapCreate(4, 0), removed |-> {}, live |-> NoLive], n) : n \in 0..2}

InitEdge ==
    /\ \E st \in EdgeMaps : map = st.map /\ removed = st.removed /\ live = st.live
    /\ last = [op |-> "create", arg |-> 0, ret |-> 0, hit |-> FALSE, outcome |-> "ok",
               before |-> map, prior |-> NoCall]
    /\ ops = 0
    /\ fault = FALSE
    /\ handle = HANDLE_INVALID_ID
    /\ cyc = 0
    /\ wpc = "idle"
    /\ PackIdle
    /\ \E c \in Configs : arena = arenaCreate(c.flags, c.reserveSize, c.commitSize)
    /\ allocs = <<>>
    /\ runStart = 1
    /\ marks = {}
    /\ temps = <<>>
    /\ alast = [op |-> "create", size |-> 0, align |-> 1, ret |-> NullAddr, mark |-> NoMark,
                before |-> arena.blocks, posBefore |-> ARENA_HEADER_SIZE, dirty |-> FALSE]
    /\ ncalls = 0

EdgeArena ==
    /\ arena.blocks # <<>>
    /\ ncalls < MaxWideCalls
    /\ ncalls' = ncalls + 1
    /\ \E call \in ArenaEdgeCalls, n \in Sizes :
          /\ arena' = ArenaEdge(call, arena, n).arena
          /\ edge' = [call |-> call, ret |-> ToString(ArenaEdge(call, arena, n).ret),
                      arena |-> arena, map |-> map]
    /\ UNCHANGED <<allocs, runStart, marks, temps, alast>>
    /\ UNCHANGED pack
    /\ UNCHANGED auxVars
    /\ UNCHANGED smVars
    /\ UNCHANGED wrapVars

EdgeSlotMap ==
    /\ ~fault
    /\ ncalls < MaxWideCalls
    /\ ncalls' = ncalls + 1
    /\ \E call \in SlotMapEdgeCalls, h \in (DOMAIN live) \cup {0}, v \in Values :
          /\ map' = SlotMapEdge(call, map, h, v).map
          /\ fault' = SlotMapEdge(call, map, h, v).nullMemset
          /\ edge' = [call |-> call, ret |-> ToString(SlotMapEdge(call, map, h, v).ret),
                      arena |-> arena, map |-> map]
    /\ UNCHANGED <<live, removed, last, ops>>
    /\ UNCHANGED pack
    /\ UNCHANGED auxVars
    /\ UNCHANGED wrapVars
    /\ UNCHANGED <<arena, allocs, runStart, marks, temps, alast>>

NextEdge == PushWide \/ EdgeArena \/ EdgeSlotMap

SpecEdge == InitEdge /\ [][NextEdge]_vars

----------------------------------------------------------------------------
(* Claims about the slot map *)

\* What slotMapGet reads through a handle, or NullPtr.
Read(m, h) == IF slotMapGetImpl(m, h) = NullPtr THEN NullPtr
              ELSE Deref(m, slotMapGetImpl(m, h))

\* The last call was a remove of a handle that was valid, so it removed a
\* live element.
RemovedLive == last.op = "remove" /\ last.hit

\* The last call was an insert that returned a handle.
InsertedOk == last.op = "insert" /\ last.ret # HANDLE_INVALID_ID

\* The last call was an insert entered with count == capacity.
InsertAtCapacity == last.op = "insert" /\ last.before.count = last.before.capacity

\* C1: every handle returned by a successful insert and not passed to
\* slotMapRemove since is found by slotMapGet, which reads the inserted value.
C1_RoundTrip ==
    \A h \in DOMAIN live :
        /\ slotMapGetImpl(map, h) # NullPtr
        /\ Read(map, h) = live[h]

\* C2: a handle that was valid when it was removed is invalid for isValid and
\* for get in every later state, whatever was inserted or removed since.
C2_RemovedStaysInvalid ==
    \A h \in removed :
        /\ ~slotMapIsValidImpl(map, h)
        /\ slotMapGetImpl(map, h) = NullPtr

\* C2 witness: a removed handle whose slot index now carries a live element.
C2_Witness ==
    \E h \in removed : \E g \in DOMAIN live :
        /\ handleIndex(g) = handleIndex(h)
        /\ slotMapIsValidImpl(map, g)

\* C3: a remove of a live element lowers count by exactly one and leaves
\* every other handle that was valid before it valid, reading the same value.
C3_RemovePreservesOthers ==
    RemovedLive =>
        /\ map.count = last.before.count - 1
        /\ \A g \in DOMAIN live :
              slotMapIsValidImpl(last.before, g) =>
                  /\ slotMapIsValidImpl(map, g)
                  /\ Read(map, g) = Read(last.before, g)
                  /\ Read(map, g) = live[g]

\* C3 witness: the element removed sat in the middle of a dense array of at
\* least three, and two other handles are still valid.
C3_Witness ==
    /\ RemovedLive
    /\ last.before.count >= 3
    /\ last.before.pIndices[handleIndex(last.arg)] = 1
    /\ Cardinality({g \in DOMAIN live : slotMapIsValidImpl(map, g)}) >= 2

\* Handles valid before the last call are valid after it with the same value,
\* and the generation and sparse entry of every slot that existed are as before.
GrowthKeepsHandles ==
    /\ \A g \in DOMAIN live :
          slotMapIsValidImpl(last.before, g) /\ g # last.ret =>
              /\ slotMapIsValidImpl(map, g)
              /\ Read(map, g) = Read(last.before, g)
    /\ \A i \in 0..(last.before.capacity - 1) :
          /\ map.pGenerations[i] = last.before.pGenerations[i]
          /\ map.pIndices[i] = last.before.pIndices[i]

C5_WrapHandleValid ==
    (/\ wpc = "remove"
     /\ cyc >= 1
     /\ handleIndex(handle) = handleIndex(last.prior.arg)) =>
        /\ slotMapIsValidImpl(map, handle)
        /\ slotMapGetImpl(map, handle) # NullPtr

\* C6: an insert that succeeds right after a remove of a live element returns
\* the removed handle's index with its generation plus one modulo 256.
C6_ReuseBumpsGeneration ==
    (InsertedOk /\ last.prior.op = "remove" /\ last.prior.hit) =>
        /\ handleIndex(last.ret) = handleIndex(last.prior.arg)
        /\ handleGeneration(last.ret) = (handleGeneration(last.prior.arg) + 1) % 256

\* C6 witness: the removed handle carried generation 255, so the new one
\* carries 0.
C6_Witness ==
    /\ InsertedOk /\ last.prior.op = "remove" /\ last.prior.hit
    /\ handleGeneration(last.prior.arg) = 255
    /\ handleGeneration(last.ret) = 0

\* Handle values tried against a map: every index up to one past the
\* capacity and the largest index, each with the generations around both ends
\* of the 8-bit range; the handles a caller may hold (live or removed) and
\* the sentinel; 0.
ProbeGenerations == {0, 1, 2, 254, 255}

ProbeHandles(m) ==
    {handleMake(i, g) : i \in (0..m.capacity) \cup {HANDLE_INDEX_MASK}, g \in ProbeGenerations}
        \cup RemoveArgs \cup {0}

\* C26: in every state and for every handle value h, slotMapIsValid(h) is true
\* exactly when h was returned by a successful insert and not removed since;
\* so no handle naming a slot on the free list is valid.
C26_ValidIffIssuedAndLive ==
    \A h \in ProbeHandles(map) :
        slotMapIsValidImpl(map, h) <=> h \in DOMAIN live

\* C17: in every state and for every handle value h, slotMapIsValid(h) is true
\* exactly when slotMapGet(h) is non-null and exactly when slotMapRemove(h)
\* would change the map (isValid and get compute a result from the map and
\* write nothing).
C17_ValidityAgrees ==
    \A h \in ProbeHandles(map) :
        /\ slotMapIsValidImpl(map, h) <=> slotMapGetImpl(map, h) # NullPtr
        /\ slotMapIsValidImpl(map, h) <=> slotMapRemoveImpl(map, h) # map

\* C17 witness: among the handles tried are a valid one, a stale one naming a
\* slot in use again, and one that passes every test but the dense-index one.
C17_Witness ==
    /\ \E h \in ProbeHandles(map) : slotMapIsValidImpl(map, h)
    /\ \E h \in removed \cap ProbeHandles(map) : \E g \in DOMAIN live :
          handleIndex(g) = handleIndex(h) /\ slotMapIsValidImpl(map, g)
    /\ \E h \in ProbeHandles(map) :
          /\ handleIsValid(h)
          /\ ULess(handleIndex(h), map.capacity)
          /\ map.pGenerations[handleIndex(h)] = handleGeneration(h)
          /\ ~slotMapIsValidImpl(map, h)

\* C18: slotMapRemove with the sentinel, an index >= capacity, a generation
\* other than the slot's stored one, or a handle already removed leaves the
\* whole map unchanged (count, capacity, free-list head, sparse, generation and
\* erase tables, dense values).
C18_InvalidRemoveIsNoOp ==
    /\ \A h \in ProbeHandles(map) :
          (\/ h = HANDLE_INVALID_ID
           \/ UGeq(handleIndex(h), map.capacity)
           \/ (ULess(handleIndex(h), map.capacity)
                  /\ map.pGenerations[handleIndex(h)] # handleGeneration(h))
           \/ h \in removed)
              => slotMapRemoveImpl(map, h) = map
    /\ (last.op = "remove" /\ ~last.hit) => map = last.before

\* C18 witness: a second remove of a handle whose slot is in use again.
C18_Witness ==
    /\ last.op = "remove"
    /\ ~last.hit
    /\ last.arg \in removed
    /\ map = last.before
    /\ \E g \in DOMAIN live :
          handleIndex(g) = handleIndex(last.arg) /\ slotMapIsValidImpl(map, g)

\* C19: when slotMapInsert has to grow and the arena fails to provide one of
\* the four new arrays, the insert returns HANDLE_INVALID_ID without faulting
\* and the map (capacity, count, arrays, every handle issued) is as before.
C19_GrowFailureIsClean ==
    (InsertAtCapacity /\ last.outcome # "ok") =>
        /\ ~fault
        /\ last.ret = HANDLE_INVALID_ID
        /\ map = last.before
        /\ \A h \in DOMAIN live :
              slotMapIsValidImpl(map, h) <=> slotMapIsValidImpl(last.before, h)

\* C21: for every index in 0..2^24-1 and generation in 0..255, handleIndex and
\* handleGeneration give back what handleMake packed; wider inputs are masked,
\* so a generation of 256 packs as 0.
C21_PackRoundTrip ==
    pack.made =>
        /\ (0 <= pack.index /\ pack.index <= 16777215) =>
              handleIndex(pack.id) = pack.index
        /\ (0 <= pack.generation /\ pack.generation <= 255) =>
              handleGeneration(pack.id) = pack.generation
        /\ pack.generation = 256 => handleGeneration(pack.id) = 0
        /\ pack.index >= 0 => handleIndex(pack.id) = pack.index % 16777216
        /\ pack.generation >= 0 => handleGeneration(pack.id) = pack.generation % 256
        /\ pack.index = -1 => handleIndex(pack.id) = 16777215
        /\ pack.generation = -1 => handleGeneration(pack.id) = 255

\* C21 witness: the largest index packed with a generation that sets the top
\* bit of the handle.
C21_Witness ==
    /\ pack.made
    /\ pack.index = 16777215
    /\ pack.generation = 254
    /\ pack.id < 0

\* The slots met following the free list of m from slot head, at most fuel of
\* them, and whether the walk ended at the empty sentinel.
RECURSIVE FreeChain(_, _, _)
FreeChain(m, head, fuel) ==
    IF head = UINT32_MAX THEN [slots |-> <<>>, ended |-> TRUE]
    ELSE IF fuel = 0 \/ ~ULess(head, m.capacity) THEN [slots |-> <<>>, ended |-> FALSE]
    ELSE LET rest == FreeChain(m, m.pIndices[head], fuel - 1)
         IN  [slots |-> <<head>> \o rest.slots, ended |-> rest.ended]

FreeList(m) == FreeChain(m, m.freeHead, m.capacity)

\* The slot indices of the handles insert has returned, and of those not
\* removed since.
IssuedSlots == {handleIndex(h) : h \in (DOMAIN live) \cup removed}
LiveSlots == {handleIndex(h) : h \in DOMAIN live}

\* C33: the free list is a chain without repetition that ends at the empty
\* sentinel and holds exactly the slots issued and not live; count plus its
\* length is the number of slots ever issued, at most capacity; and when it
\* is empty the slot numbered count was never issued.
C33_FreeListIsIssuedNotLive ==
    LET f == FreeList(map)
    IN  /\ f.ended
        /\ \A i, j \in 1..Len(f.slots) : i # j => f.slots[i] # f.slots[j]
        /\ {f.slots[i] : i \in 1..Len(f.slots)} = IssuedSlots \ LiveSlots
        /\ map.count + Len(f.slots) = Cardinality(IssuedSlots)
        /\ Cardinality(IssuedSlots) <= map.capacity
        /\ map.freeHead = UINT32_MAX => map.count \notin IssuedSlots

\* C34: count is at most capacity; the erase table maps every dense index
\* below count to the slot whose sparse entry is that dense index; every live
\* slot has a sparse entry below count that the erase table maps back to it;
\* and distinct live slots have distinct dense indices.
C34_SparseDenseBijection ==
    /\ UGeq(map.capacity, map.count)
    /\ \A d \in 0..(map.count - 1) :
          /\ ULess(map.pErase[d], map.capacity)
          /\ map.pIndices[map.pErase[d]] = d
    /\ \A s \in LiveSlots :
          /\ ULess(map.pIndices[s], map.count)
          /\ map.pErase[map.pIndices[s]] = s
    /\ \A s, t \in LiveSlots : s # t => map.pIndices[s] # map.pIndices[t]

\* C34 witness: the first of three dense elements was removed, the last one
\* was moved into its place, and an insert followed.
C34_Witness ==
    /\ last.op = "insert"
    /\ last.prior.op = "remove" /\ last.prior.hit
    /\ map.count = 3
    /\ Cardinality(LiveSlots) = 3
    /\ map.pErase[0] = 2

\* The map after k more inserts that all succeed.
RECURSIVE InsertN(_, _)
InsertN(m, k) ==
    IF k = 0 THEN m ELSE InsertN(slotMapInsertImpl(m, 1, "ok", 0).map, k - 1)

\* The smallest c * 2^j that is at least n.
RECURSIVE SmallestDoubling(_, _)
SmallestDoubling(c, n) == IF c >= n THEN c ELSE SmallestDoubling(2 * c, n)

\* C37: capacity changes only in an insert entered with count == capacity,
\* and the change is a doubling; remove never changes it; so k inserts that
\* succeed, with no remove, into a map of capacity c leave count == k and
\* capacity the smallest c * 2^j >= k (4 and 10 inserts: 10 and 16).
C37_CapacityDoublesOnlyWhenFull ==
    /\ map.capacity # last.before.capacity =>
          /\ last.op = "insert"
          /\ last.before.count = last.before.capacity
          /\ map.capacity = 2 * last.before.capacity
    /\ (removed = {} /\ ops = map.count) =>
          \A k \in 0..GrowInserts :
              /\ InsertN(map, k).count = map.count + k
              /\ InsertN(map, k).capacity = SmallestDoubling(map.capacity, map.count + k)
    /\ InsertN(slotMapCreate(4, 0), 10).count = 10
    /\ InsertN(slotMapCreate(4, 0), 10).capacity = 16

\* C37 witness: five inserts and nothing else into a map created with
\* capacity 1; the last one found the map full at capacity 4.
C37_Witness ==
    /\ removed = {}
    /\ ops = 5
    /\ map.count = 5
    /\ map.capacity = 8
    /\ last.op = "insert"
    /\ last.before.capacity = 4

\* C38: hashMapCount is the number of distinct keys stored; a new key raises
\* it by one, an insert of a stored key replaces the value and leaves it, a
\* remove of a stored key lowers it by one and a remove of an absent key
\* changes nothing; hashMapGet gives the value inserted last for a stored key
\* and null for a key never inserted or removed since.
C38_CountIsDistinctKeys ==
    /\ hashMapCount(hmap.count) = Cardinality(DOMAIN hmap.expect)
    /\ hashMapCount(hmap.count) =
          hmap.last.countBefore
              + (IF hmap.last.op = "insert" /\ ~hmap.last.hadKey THEN 1 ELSE 0)
              - (IF hmap.last.op = "remove" /\ hmap.last.hadKey THEN 1 ELSE 0)
    /\ \A key \in HashKeys :
          /\ hashMapContains(hmap.map, key) <=> key \in DOMAIN hmap.expect
          /\ hashMapGetImpl(hmap.map, key) =
                IF key \in DOMAIN hmap.expect THEN hmap.expect[key] ELSE NullPtr

\* C38 witness: a stored key was given another value while another key,
\* inserted and removed before, is absent.
C38_Witness ==
    /\ hmap.last.op = "insert"
    /\ hmap.last.hadKey
    /\ hmap.calls = MaxHashCalls
    /\ hashMapCount(hmap.count) = 1
    /\ hashMapGetImpl(hmap.map, hmap.last.key) = 20
    /\ \E key \in HashKeys : hashMapGetImpl(hmap.map, key) = NullPtr

\* C32: the value buffer of a slot map spans capacity * valueSize bytes and
\* the offset of every element written lies inside it: the byte count asked
\* of the arena and the offset written at are the products as integers.
C32_ValueBufferSpansCapacity ==
    sized.made =>
        /\ ~MulWraps(sized.valueSize, sized.capacity)
        /\ sized.count # 0 => /\ ~MulWraps(sized.count - 1, sized.valueSize)
                              /\ ULess(sized.offset, sized.bytes)

\* C22: no slotMapInsert that stores the value and increments count returns
\* HANDLE_INVALID_ID, whatever slot index and stored generation it packs.
C22_SuccessNeverSentinel ==
    (last.op = "insert" /\ map.count = UInc(last.before.count)) =>
        last.ret # HANDLE_INVALID_ID

\* What the entry points return for a null arena, a null slot map, a zero
\* size, a zero capacity or a null value pointer.
EdgeReturn(call) ==
    CASE call \in {"arenaPush(nullptr)", "arenaPush(size 0)"} -> NullAddr
      [] call = "arenaGetPos(nullptr)" -> 0
      [] call \in {"arenaPopTo(nullptr)", "arenaPop(nullptr)", "arenaClear(nullptr)",
                   "arenaRelease(nullptr)", "arenaTempEnd(nullptr)",
                   "slotMapRemove(nullptr)"} -> "void"
      [] call \in {"slotMapCreate(nullptr)", "slotMapCreate(valueSize 0)",
                   "slotMapCreate(capacity 0)"} -> nullptr
      [] call \in {"slotMapInsert(nullptr)", "slotMapInsert(value nullptr)"} -> HANDLE_INVALID_ID
      [] call = "slotMapGet(nullptr)" -> NullPtr
      [] call = "slotMapIsValid(nullptr)" -> FALSE
      [] call \in {"slotMapCount(nullptr)", "slotMapCapacity(nullptr)"} -> 0

\* C23: a call of an entry point with a null arena, a null slot map, a zero
\* size, a zero capacity or a null value pointer does not fault, changes
\* neither the arena nor the slot map, and returns null / 0 / false /
\* HANDLE_INVALID_ID as listed.
C23_NullInputsAreNoOps ==
    [][edge' # edge =>
          /\ ~fault'
          /\ arena' = arena
          /\ map' = map
          /\ edge'.ret = ToString(EdgeReturn(edge'.call))]_vars

\* C23 witness: a push of size 0 on an arena that has chained a block, beside
\* a slot map that holds elements.
C23_Witness ==
    /\ edge.call = "arenaPush(size 0)"
    /\ arena = edge.arena
    /\ Len(arena.blocks) >= 2
    /\ map.count > 0
    /\ edge.ret = ToString(NullAddr)

----------------------------------------------------------------------------
(* Claims about the arena *)

\* C27: every block of the chain has its cursor at or above the header size,
\* and no push returns bytes of a block header.
C27_CursorsAboveHeader ==
    /\ \A i \in 1..Len(arena.blocks) : UGeq(arena.blocks[i].pos, ARENA_HEADER_SIZE)
    /\ (alast.op = "push" /\ alast.ret # NullAddr) => UGeq(alast.ret.off, ARENA_HEADER_SIZE)

\* C28: a push that overflows the current block of an arena that may chain,
\* the platform calls succeeding, returns; it has chained exactly one block
\* and the address returned lies in that block.
C28_ChainsExactlyOneBlock ==
    (/\ alast.op = "push"
     /\ Overflows(alast.before[Len(alast.before)], alast.size, alast.align)) =>
        /\ ~fault
        /\ Len(arena.blocks) = Len(alast.before) + 1
        /\ alast.ret # NullAddr
        /\ alast.ret.blk = pCurrent(arena).region

\* C29: arenaPopTo, arenaPop, arenaClear and arenaTempEnd leave arenaGetPos at
\* or below what it was before the call, whatever the target position.
C29_PopsNeverRaisePosition ==
    alast.op \in {"popTo", "popToAny", "pop", "clear", "tempEnd"} =>
        ~UGreater(arenaGetPos(arena), alast.posBefore)

\* C30: after an arenaPush that returned null the chain holds the blocks it
\* held before, each with the cursor and committed size it had, the current
\* block is the one it was and arenaGetPos is what it was.
C30_NullPushChangesNothing ==
    (alast.op = "push" /\ alast.ret = NullAddr) =>
        /\ arena.blocks = alast.before
        /\ arenaGetPos(arena) = alast.posBefore

\* C31: a template push whose arenaPush returned null returns null and the
\* process has not faulted.
C31_NullTypedPushNoFault ==
    (/\ alast.op \in {"arenaPushStruct", "arenaPushArray", "arenaPushArrayNoZero"}
     /\ alast.ret = NullAddr) => ~fault

\* C35: arenaPopTo(p) releases exactly the blocks whose basePos is at or
\* above t = max(p, ARENA_HEADER_SIZE), leaves the newest block below t current
\* with cursor t - basePos, and changes nothing else: the other blocks keep
\* their cursors, every kept block its basePos, reserved and committed sizes,
\* and the committed bytes of the kept blocks stay committed.
C35_PopToFrame ==
    [][(alast' # alast /\ alast'.op = "popToAny") =>
          LET t    == IF ULess(alast'.size, ARENA_HEADER_SIZE)
                      THEN ARENA_HEADER_SIZE ELSE alast'.size
              kept == {i \in 1..Len(arena.blocks) : ULess(arena.blocks[i].basePos, t)}
              k    == Cardinality(kept)
          IN  /\ kept = 1..k
              /\ Len(arena'.blocks) = k
              /\ \A i \in 1..k :
                    arena'.blocks[i] =
                        [arena.blocks[i] EXCEPT
                            !.pos = IF i = k THEN t - arena.blocks[k].basePos
                                    ELSE arena.blocks[i].pos]
              /\ arena'.regions = {arena.blocks[i].region : i \in kept}
              /\ arena'.mem = {e \in arena.mem : e.blk \in arena'.regions}
              /\ ~arena'.badFree]_vars

\* C35 witness: a pop to a position inside the second of three blocks has
\* released the third and kept the first two.
C35_Witness ==
    /\ alast.op = "popToAny"
    /\ Len(alast.before) = 3
    /\ Len(arena.blocks) = 2
    /\ alast.before[1].pos > ARENA_HEADER_SIZE
    /\ arena.blocks[1].pos = alast.before[1].pos

\* C36: the first block has basePos 0 and every chained block's basePos is
\* the basePos of the block before it plus that block's reserved size, so
\* the position ranges of the blocks do not overlap.
C36_BasePosChained ==
    arena.blocks # <<>> =>
        /\ arena.blocks[1].basePos = 0
        /\ \A i \in 2..Len(arena.blocks) :
              /\ arena.blocks[i].basePos
                    = arena.blocks[i - 1].basePos + arena.blocks[i - 1].reserved
              /\ UGreater(arena.blocks[i].basePos, arena.blocks[i - 1].basePos)

\* C36 witness: a block sized above the arena's reserve size to fit a large
\* push was chained, and the last call chained a third block behind it.
C36_Witness ==
    /\ Len(arena.blocks) = 3
    /\ arena.blocks[2].reserved > arena.blocks[1].reserved
    /\ alast.op = "push"
    /\ Len(alast.before) = 2
    /\ ncalls = MaxCalls

\* C25: an arena created with a non-null pBackingBuffer has its first block
\* in that buffer, and nothing was reserved from the platform for it.
C25_FirstBlockInBackingBuffer ==
    (params.pBackingBuffer # NullAddr.blk /\ arena.blocks # <<>>) =>
        /\ arena.blocks[1].region = params.pBackingBuffer
        /\ arena.blocks[1].region \notin arena.regions

\* C24: the memory arenaPushStruct and arenaPushArray return holds zero in
\* every byte, also where the range reuses bytes written earlier and popped;
\* arenaPush and arenaPushArrayNoZero leave the bytes of the returned range as
\* they were (bytes committed by the call are as the platform supplies them).
C24_ZeroedOrUntouched ==
    [][(alast' # alast /\ alast'.ret # NullAddr) =>
          /\ alast'.op \in {"arenaPushStruct", "arenaPushArray"} =>
                Holds(arena'.mem, alast'.ret.blk, alast'.ret.off,
                      alast'.ret.off + alast'.size, ZeroByte)
          /\ alast'.op \in {"arenaPush", "arenaPushArrayNoZero"} =>
                \A k \in alast'.ret.off..(alast'.ret.off + alast'.size - 1) :
                    \/ ByteAt(arena'.mem, alast'.ret.blk, k)
                          = ByteAt(arena.mem, alast'.ret.blk, k)
                    \/ /\ ByteAt(arena.mem, alast'.ret.blk, k) = NoByte
                       /\ ByteAt(arena'.mem, alast'.ret.blk, k) = ZeroByte]_vars

\* C24 witness: arenaPushArray returned a range holding bytes that a caller
\* had written before they were popped.
C24_Witness ==
    /\ alast.op = "arenaPushArray"
    /\ alast.ret # NullAddr
    /\ alast.dirty
    /\ Holds(arena.mem, alast.ret.blk, alast.ret.off, alast.ret.off + alast.size, ZeroByte)

\* The last call was an arenaPush that returned an address.
PushedOk == alast.op = "push" /\ alast.ret # NullAddr

\* C7: of the ranges returned by the successful pushes made since the last
\* pop, a later one in the same block begins at or after the end of an
\* earlier one and ranges in different blocks lie in different regions, so no
\* two overlap; and every allocation the caller has filled and no pop has
\* reclaimed still holds the bytes written to it, whatever pushes, temp
\* scopes and pops to later positions followed.
C7_RangesDisjointBytesPersist ==
    /\ \A i, j \in runStart..Len(allocs) :
          (i < j /\ allocs[i].blk = allocs[j].blk) =>
              /\ UGeq(allocs[j].off, allocs[i].off)
              /\ UGeq(allocs[j].off - allocs[i].off, allocs[i].size)
    /\ \A i \in 1..Len(allocs) :
          allocs[i].written =>
              Holds(arena.mem, allocs[i].blk, allocs[i].off,
                    allocs[i].off + allocs[i].size, i)

\* a push that had to skip padding after a filled allocation of the same block
C7_Witness ==
    /\ PushedOk
    /\ Len(allocs) > runStart
    /\ allocs[Len(allocs) - 1].written
    /\ allocs[Len(allocs) - 1].blk = alast.ret.blk
    /\ alast.ret.off > allocs[Len(allocs) - 1].off + allocs[Len(allocs) - 1].size

\* C8: the address a successful arenaPush(size, align) returns lies at a
\* multiple of align from the start of its block.
C8_PushAligned == PushedOk => alast.ret.off % alast.align = 0

\* a 128-aligned push into the block that was current, past a cursor that
\* was not 128-aligned
C8_Witness ==
    /\ PushedOk
    /\ alast.align = 128
    /\ Len(alast.before) = Len(arena.blocks)
    /\ alast.before[Len(alast.before)].pos % 128 # 0

\* C9: after arenaPopTo(p), with p read by arenaGetPos and no pop below p
\* since, arenaGetPos is p again, the block that was current when p was read
\* is current with the cursor it had then, the blocks before it are as they
\* were, and every block chained after it has been released.
C9_PopToRestores ==
    alast.op = "popTo" =>
        LET m == alast.mark
        IN  /\ arenaGetPos(arena) = m.pos
            /\ Len(arena.blocks) = m.depth
            /\ pCurrent(arena).region = m.region
            /\ pCurrent(arena).pos = m.local
            /\ \A i \in 1..m.depth :
                  arena.blocks[i] = [alast.before[i] EXCEPT !.pos = arena.blocks[i].pos]
            /\ \A i \in 1..(m.depth - 1) : arena.blocks[i].pos = alast.before[i].pos
            /\ arena.regions = {arena.blocks[i].region : i \in 1..m.depth}
            /\ \A e \in arena.mem : e.blk \in arena.regions

\* a pop to the position read when a block was full, releasing the block
\* chained after it
C9_Witness ==
    /\ alast.op = "popTo"
    /\ Len(alast.before) > alast.mark.depth
    /\ alast.before[alast.mark.depth + 1].basePos = alast.mark.pos

\* C10: arenaTempEnd of the innermost open scope puts arenaGetPos back to the
\* value it had at the arenaTempBegin of that scope, whatever scopes enclose it.
C10_TempEndRestores ==
    alast.op = "tempEnd" => arenaGetPos(arena) = alast.mark.pos

\* the end of a scope begun in a chained block, inside another scope, after
\* a push in it
C10_Witness ==
    /\ alast.op = "tempEnd"
    /\ temps # <<>>
    /\ alast.mark.depth > 1
    /\ alast.posBefore > alast.mark.pos

\* C11: no arenaPush, successful or failed, lowers arenaGetPos, and a
\* successful one raises it by at least the size requested.
C11_PushNeverLowers ==
    alast.op = "push" =>
        /\ UGeq(arenaGetPos(arena), alast.posBefore)
        /\ alast.ret # NullAddr =>
              UGeq(arenaGetPos(arena) - alast.posBefore, alast.size)

\* C12: every block of the chain has localPosition <= committedBytes <=
\* reservedBytes.
C12_CursorWithinCommit ==
    \A i \in 1..Len(arena.blocks) :
        /\ UGeq(arena.blocks[i].committed, arena.blocks[i].pos)
        /\ UGeq(arena.blocks[i].reserved, arena.blocks[i].committed)

\* Every byte of [lo, hi) of region blk is committed.
Committed(mem, blk, lo, hi) ==
    \A k \in lo..(hi - 1) : \E e \in mem : e.blk = blk /\ e.lo <= k /\ k < e.hi

\* C13: the range [p, p + size) a successful arenaPush returns lies in the
\* current block, ends at or below that block's committed size, and every
\* byte of it has been committed.
C13_RangeCommitted ==
    PushedOk =>
        /\ alast.ret.blk = pCurrent(arena).region
        /\ UGeq(pCurrent(arena).committed, alast.ret.off)
        /\ UGeq(pCurrent(arena).committed - alast.ret.off, alast.size)
        /\ Committed(arena.mem, alast.ret.blk, alast.ret.off, alast.ret.off + alast.size)

\* The request of the last push, aligned from the cursor the current block
\* had, ends at or below limit (the sum taken without wraparound).
LastPushEndsBy(limit) ==
    LET cur        == alast.before[Len(alast.before)]
        posAligned == alignPow2(cur.pos, alast.align)
    IN  UGeq(limit, posAligned) /\ UGeq(limit - posAligned, alast.size)

\* C14: an arena created with ArenaFlag_NoChain keeps its single block; a
\* push whose aligned end exceeds that block's reserved size returns null
\* and leaves arenaGetPos as it was; a push that fits in the block succeeds
\* (unless a commit it needs fails).
C14_NoChainEnforced ==
    (arena.blocks # <<>> /\ BitAnd(arena.blocks[1].flags, ArenaFlag_NoChain) # 0) =>
        /\ Len(arena.blocks) = 1
        /\ alast.op = "push" =>
              /\ ~LastPushEndsBy(alast.before[1].reserved) =>
                    alast.ret = NullAddr /\ arenaGetPos(arena) = alast.posBefore
              /\ LastPushEndsBy(alast.before[1].committed) => alast.ret # NullAddr


\* C15: after arenaClear, from any state, arenaGetPos is ARENA_HEADER_SIZE (its
\* value right after arenaCreate), the first block is the current block, and
\* every chained block has been released to the platform.
C15_ClearResets ==
    alast.op = "clear" =>
        /\ arenaGetPos(arena) = ARENA_HEADER_SIZE
        /\ arenaGetPos(arena) =
              arenaGetPos(arenaCreate(alast.before[1].flags, alast.before[1].reserved,
                                      alast.before[1].committed))
        /\ Len(arena.blocks) = 1
        /\ pCurrent(arena).region = alast.before[1].region
        /\ arena.regions = {alast.before[1].region}
        /\ \A e \in arena.mem : e.blk = alast.before[1].region

C15_Witness ==
    alast.op = "clear" /\ Len(alast.before) >= 3

\* C16: arenaPop(amount) leaves arenaGetPos at max(ARENA_HEADER_SIZE, previous
\* position - amount) with no unsigned wraparound: an amount at or above the
\* position rolls back to ARENA_HEADER_SIZE.
C16_PopClamps ==
    alast.op = "pop" =>
        arenaGetPos(arena) =
            IF ULess(alast.size, alast.posBefore)
               /\ UGeq(alast.posBefore - alast.size, ARENA_HEADER_SIZE)
            THEN alast.posBefore - alast.size
            ELSE ARENA_HEADER_SIZE

C16_Witness ==
    /\ alast.op = "pop"
    /\ alast.size = -1
    /\ Len(alast.before) >= 2
    /\ arenaGetPos(arena) = ARENA_HEADER_SIZE


\* C20: every region obtained from platformReserveMemory is passed to
\* platformReleaseMemory exactly once: at every moment the regions still
\* reserved are exactly the blocks of the chain (a block dropped by popTo, pop or
\* clear, and a region whose initial commit failed, is released at once), no
\* release names a region that is not reserved, and after arenaRelease or a
\* failed arenaCreate nothing is left reserved.
C20_ReleasedExactlyOnce ==
    /\ ~arena.badFree
    /\ arena.regions = {arena.blocks[i].region : i \in 1..Len(arena.blocks)}
    /\ \A i, j \in 1..Len(arena.blocks) :
          arena.blocks[i].region = arena.blocks[j].region => i = j
    /\ \A e \in arena.mem : e.blk \in arena.regions
    /\ alast.op \in {"release", "createFailed"} => arena.regions = {} /\ arena.mem = {}

C20_Witness ==
    /\ alast.op = "release"
    /\ Len(alast.before) >= 2
    /\ ncalls = MaxCalls
    /\ arena.regions = {}

============================================================================
